---- MODULE Spec2Model ----
(***************************************************************************)
(* BatchGpt.request(): the retry loop around one logical request, in the   *)
(* two revisions of the class kept in src/lib/BatchGpt.js (first revision  *)
(* lines 98-473, second revision lines 567-1020).                          *)
(*                                                                         *)
(* One action per stretch of request() between two awaits:                 *)
(*   Request           the call, up to the first await                     *)
(*   ModerationReject  the moderation call rejects                         *)
(*   ModerationResolve the moderation call resolves with a result          *)
(*   CallSettle        queue.add(...) settles (model call or its timeout)  *)
(*   DelayElapsed      utils.delay(...) settles                            *)
(*                                                                         *)
(* JavaScript values are encoded as follows.  null in a string position    *)
(* (error) is NoError; null in an object or array position is null; the    *)
(* response body is represented by the ordinal of the model call that      *)
(* received it (NoBody for null, UndefinedBody for undefined); NaN and a   *)
(* null token count are the negative codes NaN and NullTokens.             *)
(***************************************************************************)
EXTENDS Integers, Sequences, FiniteSets, TLC

\* ---------------------------------------------------------------- bounds
MaxRetryCount == 2
\* retryCount bound of the specification that observes each attempt's draw
MaxObservedRetryCount == 1
\* items submitted to one parallel()
NItems == 2
\* largest concurrency of a parallel()
MaxConcurrency == 2
\* largest retryCount of the requests of a parallel()
MaxBatchRetryCount == 1
\* items submitted to one parallel() whose tasks carry priorities
NPriorityItems == 3
\* largest priority of a task
MaxPriority == 1

\* ------------------------------------------------------------- encodings
null == [null |-> TRUE]
NoError == "null"
NoBody == 0
UndefinedBody == -1
NaN == -1
NullTokens == -2

\* the default of moderationThreshold in src/lib, 0.5, in tenths
DefaultModerationThreshold == 5
Scores == {DefaultModerationThreshold - 1, DefaultModerationThreshold}
CategoryKeys == <<"hate", "violence">>
Categories == {CategoryKeys[i] : i \in 1..Len(CategoryKeys)}

\* error messages
RequestTimedOut == "Request timed out"
InvalidJson == "Invalid JSON response"
EmptyResponse == "Empty response"
UnreliableTime == "Response is unreliable. Response Time"
UnreliableTokens == "Response is unreliable. Tokens received"
TransportError == "transport error"
\* message of the TimeoutError p-queue rejects with under throwOnTimeout
QueueTimeoutError == "TimeoutError"
\* message of the exception a failing moderation call rejects with
ModerationFailure == "moderation error"
MissingPrompt == "Either 'prompt' or 'messages' parameter is required."

\* what the remote model call of one attempt can do
Usages == [present : BOOLEAN, completion_tokens : {NaN, 0, 1, 2}]
Bodies == [json : BOOLEAN, usage : Usages]
Elapsed == {0, 1, 2}
Outcomes ==
    {[kind |-> k, body |-> b, time |-> t] :
        k \in {"resolve"}, b \in Bodies, t \in Elapsed}
    \cup
    {[kind |-> k, body |-> [json |-> FALSE,
                            usage |-> [present |-> FALSE,
                                       completion_tokens |-> NaN]],
      time |-> 1] : k \in {"reject", "timeout", "undefined"}}

VARIABLES
    rev,              \* revision of request(): 1 or 2
    moderation,       \* this.moderation
    nMessages,        \* messages.length after prompt/messages resolution
    given,            \* what the caller passed: "prompt", "messages" or "none"
    retryCount,
    retryDelay,       \* "zero" (0), "number" (> 0) or "function"
    validateJson,
    imageModel,       \* TRUE when an image model is set
    minTokens,        \* 0 stands for null
    minResponseTime,  \* 0 stands for null
    defaults,         \* this.retryCount, this.retryDelay, this.minTokens
    options,          \* the requestOptions of the call: a record of the
                      \* options the caller passed
    overridden,       \* options that earlier calls on this instance passed
                      \* with a value other than the constructor's
    requestOptions,   \* the batch-level requestOptions given to parallel()
    verbose,          \* the verbose binding of parallel(): "false" (the
                      \* constructor's default) or "NONE"
    moderationThreshold,  \* this.moderationThreshold, in tenths; 0 stands
                      \* for null, which >= compares as 0
    pc,
    retryAttempt,
    error,
    response,
    gptResponse,
    responseHistory,
    safeInput,
    moderationResult,
    result,           \* the value request() resolved with, null before
    modelCalls,       \* remote model calls started
    moderationCalls,  \* moderation calls started
    delayLog,         \* value of retryAttempt at each awaited delay
    attemptLog,       \* what each settled attempt did: kind, error, body
    moderationOutcome,\* "none", "rejected" or "resolved"
    thrown,           \* message of the exception request() rejected with
    settled,          \* what the last settled model call did (SpecObserved)
    form,             \* which parallel(): "lib1", "lib2", "legacy", "legacy2"
                      \* or "priority"
    concurrency,
    onResponse,       \* TRUE when the caller supplied the callback
    items,            \* per submitted item: its request() and its task
    orphans,          \* remote calls whose attempt timed out, still in flight
    parPc,            \* position of parallel() itself
    results,          \* the array parallel() resolved with
    onResponseCalls   \* arguments of each onResponse invocation, in order

cfgVars == <<rev, moderation, nMessages, given, retryCount, retryDelay,
             validateJson, imageModel, minTokens, minResponseTime,
             defaults, options, overridden, requestOptions, verbose,
             moderationThreshold>>
vars == <<rev, moderation, nMessages, given, retryCount, retryDelay,
          validateJson, imageModel, minTokens, minResponseTime,
          defaults, options, overridden, requestOptions, verbose,
          moderationThreshold,
          pc, retryAttempt, error, response, gptResponse, responseHistory,
          safeInput, moderationResult, result,
          modelCalls, moderationCalls, delayLog,
          attemptLog, moderationOutcome, thrown, settled,
          form, concurrency, onResponse, items, orphans, parPc, results,
          onResponseCalls>>
batchVars == <<form, concurrency, onResponse, items, orphans, parPc, results,
               onResponseCalls>>
requestVars == <<pc, retryAttempt, error, response, gptResponse,
                 responseHistory, safeInput, moderationResult, result,
                 modelCalls, moderationCalls, delayLog, attemptLog,
                 moderationOutcome, thrown, settled>>

\* ------------------------------------------------------- pure operators

\* a <= b of JavaScript on numbers, false when either is NaN
JsLeq(a, b) == a # NaN /\ b # NaN /\ a <= b

getToken(body) ==
    IF body.usage.present THEN body.usage.completion_tokens ELSE 0

isJson(body) == body.json

\* a JSON check that is also applied to image requests
JsonCheckFailsAlsoForImages(body) == validateJson /\ ~isJson(body)

JsonCheckFails(body) == ~imageModel /\ validateJson /\ ~isJson(body)

\* a latency floor that accepts the threshold itself
LatencyCheckFailsBelowOnly(responseTime) ==
    minResponseTime # 0 /\ responseTime < minResponseTime

LatencyCheckFails(responseTime) ==
    minResponseTime # 0 /\ JsLeq(responseTime, minResponseTime)

\* a token floor that accepts the threshold itself
TokenCheckFailsBelowOnly(tokens) ==
    minTokens # 0 /\ tokens # NaN /\ tokens < minTokens

TokenCheckFails(tokens) == minTokens # 0 /\ JsLeq(tokens, minTokens)

\* the checks in the opposite order
ValidateTokensFirst(body, responseTime) ==
    IF TokenCheckFails(getToken(body)) THEN UnreliableTokens
    ELSE IF LatencyCheckFails(responseTime) THEN UnreliableTime
    ELSE IF JsonCheckFails(body) THEN InvalidJson
    ELSE NoError

\* the checks of one received response, in source order; NoError when all pass
Validate(body, responseTime) ==
    IF JsonCheckFails(body) THEN InvalidJson
    ELSE IF LatencyCheckFails(responseTime) THEN UnreliableTime
    ELSE IF TokenCheckFails(getToken(body)) THEN UnreliableTokens
    ELSE NoError

\* the checks of the request() at hand: the one of the ChatGpt class whose
\* parallel() takes priorities tests every reply that is not a function
\* call with isJson before its other checks
ResponseError(body, responseTime) ==
    IF form = "priority" /\ ~isJson(body) THEN EmptyResponse
    ELSE Validate(body, responseTime)

\* what queue.add(async () => requestFn) does for the attempt
QueueAddError(o) ==
    CASE o.kind = "reject" -> TransportError
      [] o.kind = "timeout" -> QueueTimeoutError
      [] o.kind = "undefined" -> RequestTimedOut
      [] OTHER -> ResponseError(o.body, o.time)

QueueAddResponse(o, ordinal) ==
    CASE o.kind = "resolve" -> ordinal
      [] o.kind = "undefined" -> UndefinedBody
      [] OTHER -> response

\* the body the attempt's call delivered, NoBody when it delivered none
ReceivedBody(o, ordinal) ==
    CASE o.kind = "resolve" -> ordinal
      [] o.kind = "undefined" -> UndefinedBody
      [] OTHER -> NoBody

\* the options of a call that the model follows
OptionNames == {"retryCount", "retryDelay", "minTokens"}

\* the defaults in the constructor's parameter list
ConstructorDefaults ==
    IF rev = 0
    THEN [retryCount |-> 1, retryDelay |-> "number", minTokens |-> 0]
    ELSE [retryCount |-> 0, retryDelay |-> "zero", minTokens |-> 0]

\* the binding that the destructuring of requestOptions gave option f
CurrentOption(f) ==
    CASE f = "retryCount" -> retryCount
      [] f = "retryDelay" -> retryDelay
      [] f = "minTokens" -> minTokens

\* an omitted option that takes the value the call before passed
ResolveFromLastCall(f, opts) ==
    IF f \in DOMAIN opts THEN opts[f]
    ELSE IF f \in DOMAIN options THEN options[f]
    ELSE defaults[f]

\* let { retryCount = this.retryCount, ... } = requestOptions
Resolve(f, opts) ==
    IF f \in DOMAIN opts THEN opts[f] ELSE defaults[f]

\* the default of moderationThreshold in the constructor of the class
ConstructorThreshold ==
    CASE form = "legacy" -> 0
      [] form = "legacy2" -> 2
      [] OTHER -> DefaultModerationThreshold

\* an instance built without options and a call, or a batch, that passes
\* every option
CallGivesEveryOption ==
    /\ defaults = ConstructorDefaults
    /\ options = [retryCount |-> retryCount, retryDelay |-> retryDelay,
                  minTokens |-> minTokens]
    /\ overridden = {}
    /\ requestOptions = options

InitialRetryAttempt == IF rev = 1 THEN -1 ELSE 0

\* a loop that runs one attempt too many
LoopConditionOneMore(ra) == ra <= retryCount + (2 - rev)

LoopCondition(ra) == IF rev = 1 THEN ra < retryCount ELSE ra <= retryCount

\* an attempt that starts without clearing the previous attempt's error
AttemptStartErrorKept(err) == err

AttemptStartError(err) == NoError

\* a success branch without its break
BreakOnSuccessMissing == FALSE

BreakOnSuccess == TRUE

FailureError(message) == message

\* a success record built from the body held before the attempt
SuccessRecordStale(body, resp) ==
    [error |-> NoError, moderation |-> moderationResult,
     response |-> response, tokens |-> getToken(body)]

SuccessRecord(body, resp) ==
    [error |-> NoError, moderation |-> moderationResult,
     response |-> resp, tokens |-> getToken(body)]

\* a failure record that drops the response body
FailureRecordNoBody(message, resp) ==
    [error |-> message, moderation |-> moderationResult,
     response |-> NoBody, tokens |-> NullTokens]

FailureRecord(message, resp) ==
    [error |-> message, moderation |-> moderationResult,
     response |-> resp, tokens |-> NullTokens]

\* the retry delay is awaited after this failed attempt
DelayDue(ra) ==
    IF retryDelay # "function"
    THEN retryDelay = "number" /\ ra < retryCount
    ELSE ra < retryCount

RECURSIVE Join(_)
Join(s) ==
    IF s = <<>> THEN ""
    ELSE IF Len(s) = 1 THEN s[1]
    ELSE s[1] \o ", " \o Join(Tail(s))

\* a filter that keeps only the scores above the threshold
flaggedCategoriesAboveOnly(mr) ==
    SelectSeq(CategoryKeys,
              LAMBDA c : mr.category_scores[c] > moderationThreshold)

flaggedCategories(mr) ==
    SelectSeq(CategoryKeys,
              LAMBDA c : mr.category_scores[c] >= moderationThreshold)

SafeInput(mr) == [flagged |-> mr.flagged, categories |-> flaggedCategories(mr)]

\* a veto test that looks at the flagged field only
IsVetoedFlagOnly(si) == si.flagged

IsVetoed(si) == si.flagged \/ Len(si.categories) > 0

ModerationError(si) == "Prompt was flagged for " \o Join(si.categories)

\* a moderation call whose failure is swallowed
ModerationFailureSwallowed == FALSE

\* await this.moderationApi(message) stands outside every try block
ModerationFailureIsFatal == TRUE

ModerationRuns == nMessages = 1 /\ moderation

EmptyMessages ==
    "Invalid 'messages' parameter. It should be a non-empty array."
NegativeRetryCount ==
    "Invalid 'retryCount' parameter. It should be a non-negative number or null."

\* a validation that lets a negative retryCount through
ValidationErrorIgnoresRetryCount ==
    IF given = "none" THEN MissingPrompt
    ELSE IF given = "messages" /\ nMessages = 0 THEN EmptyMessages
    ELSE NoError

\* validateRequestParameters of the first revision, in the order of its
\* tests: the message it throws with, NoError when it returns
ValidationError ==
    IF given = "none" THEN MissingPrompt
    ELSE IF given = "messages" /\ nMessages = 0 THEN EmptyMessages
    ELSE IF retryCount # 0 /\ retryCount < 0 THEN NegativeRetryCount
    ELSE NoError

ModerationResults == [flagged : BOOLEAN, category_scores : [Categories -> Scores]]

\* --------------------------------------------------------------- actions

Init ==
    /\ rev \in {1, 2}
    /\ moderation \in BOOLEAN
    /\ nMessages \in {1, 2}
    /\ given = (IF nMessages = 1 THEN "prompt" ELSE "messages")
    /\ retryCount \in 0..MaxRetryCount
    /\ retryDelay \in {"zero", "number", "function"}
    /\ validateJson \in BOOLEAN
    /\ imageModel \in BOOLEAN
    /\ minTokens \in {0, 1}
    /\ minResponseTime \in {0, 1}
    /\ pc = "idle"
    /\ retryAttempt = 0
    /\ error = NoError
    /\ response = NoBody
    /\ gptResponse = null
    /\ responseHistory = <<>>
    /\ safeInput = null
    /\ moderationResult = null
    /\ result = null
    /\ modelCalls = 0
    /\ moderationCalls = 0
    /\ delayLog = <<>>
    /\ attemptLog = <<>>
    /\ moderationOutcome = "none"
    /\ thrown = NoError
    /\ settled = null
    /\ form = "lib1"
    /\ concurrency = 1
    /\ onResponse = FALSE
    /\ items = <<>>
    /\ orphans = 0
    /\ parPc = "idle"
    /\ results = <<>>
    /\ onResponseCalls = <<>>
    /\ CallGivesEveryOption
    /\ verbose = "false"
    /\ moderationThreshold = ConstructorThreshold

\* return [error, gptResponse, responseHistory]
Return(err, gr, hist, ra) ==
    /\ pc' = "returned"
    /\ result' = [error |-> err, response |-> gr, history |-> hist]
    /\ error' = err
    /\ gptResponse' = gr
    /\ responseHistory' = hist
    /\ retryAttempt' = ra
    /\ UNCHANGED modelCalls

\* the while test and, when it holds, the attempt up to await queue.add(...)
LoopHead(err, gr, hist, ra) ==
    IF LoopCondition(ra)
    THEN /\ retryAttempt' = ra + 1
         /\ error' = AttemptStartError(err)
         /\ modelCalls' = modelCalls + 1
         /\ pc' = "calling"
         /\ gptResponse' = gr
         /\ responseHistory' = hist
         /\ UNCHANGED result
    ELSE Return(err, gr, hist, ra)

Request ==
    /\ pc = "idle"
    /\ IF ValidationError # NoError
       THEN /\ pc' = "threw"
            /\ thrown' = ValidationError
            /\ UNCHANGED <<retryAttempt, error, gptResponse, responseHistory,
                           result, modelCalls, moderationCalls>>
       ELSE /\ UNCHANGED thrown
            /\ IF ModerationRuns
               THEN /\ pc' = "moderating"
                    /\ moderationCalls' = moderationCalls + 1
                    /\ retryAttempt' = InitialRetryAttempt
                    /\ UNCHANGED <<error, gptResponse, responseHistory,
                                   result, modelCalls>>
               ELSE /\ LoopHead(NoError, null, <<>>, InitialRetryAttempt)
                    /\ UNCHANGED moderationCalls
    /\ UNCHANGED <<cfgVars, response, safeInput, moderationResult, delayLog,
                   attemptLog, moderationOutcome, settled, batchVars>>

ModerationReject ==
    /\ pc = "moderating"
    /\ moderationOutcome' = "rejected"
    /\ IF ModerationFailureIsFatal
       THEN /\ pc' = "threw"
            /\ thrown' = ModerationFailure
            /\ UNCHANGED <<retryAttempt, error, gptResponse, responseHistory,
                           result, modelCalls>>
       ELSE /\ LoopHead(error, gptResponse, responseHistory, retryAttempt)
            /\ UNCHANGED thrown
    /\ UNCHANGED <<cfgVars, response, safeInput, moderationResult,
                   moderationCalls, delayLog, attemptLog, settled, batchVars>>

ModerationResolve ==
    /\ pc = "moderating"
    /\ moderationOutcome' = "resolved"
    /\ \E mr \in ModerationResults :
        /\ safeInput' = SafeInput(mr)
        /\ moderationResult' = mr
        /\ IF IsVetoed(SafeInput(mr))
           THEN /\ pc' = "returned"
                /\ result' = [error |-> ModerationError(SafeInput(mr)),
                              response |-> null, history |-> null]
                /\ UNCHANGED <<retryAttempt, error, gptResponse,
                               responseHistory, modelCalls>>
           ELSE LoopHead(error, gptResponse, responseHistory, retryAttempt)
    /\ UNCHANGED <<cfgVars, response, moderationCalls, delayLog, attemptLog,
                   thrown, settled, batchVars>>

\* a catch block that starts the delay without awaiting it
SettleDelayNotAwaited(o) ==
    /\ pc = "calling"
    /\  LET message == QueueAddError(o)
            resp == QueueAddResponse(o, modelCalls)
        IN  /\ response' = resp
            /\ attemptLog' = Append(attemptLog,
                    [kind |-> o.kind, error |-> message,
                     body |-> ReceivedBody(o, modelCalls)])
            /\ IF message = NoError
               THEN LET gr == SuccessRecord(o.body, resp)
                        hist == Append(responseHistory, gr)
                    IN  /\ IF BreakOnSuccess
                           THEN Return(error, gr, hist, retryAttempt)
                           ELSE LoopHead(error, gr, hist, retryAttempt)
                        /\ UNCHANGED delayLog
               ELSE LET gr == FailureRecord(message, resp)
                        hist == Append(responseHistory, gr)
                        err == FailureError(message)
                    IN  IF DelayDue(retryAttempt)
                        THEN /\ delayLog' = Append(delayLog, retryAttempt)
                             /\ LoopHead(err, gr, hist, retryAttempt)
                        ELSE /\ LoopHead(err, gr, hist, retryAttempt)
                             /\ UNCHANGED delayLog
    /\ UNCHANGED <<cfgVars, safeInput, moderationResult, moderationCalls,
                   moderationOutcome, thrown, batchVars>>

\* the code that runs when queue.add(...) settles with outcome o
Settle(o) ==
    /\ pc = "calling"
    /\  LET message == QueueAddError(o)
            resp == QueueAddResponse(o, modelCalls)
        IN  /\ response' = resp
            /\ attemptLog' = Append(attemptLog,
                    [kind |-> o.kind, error |-> message,
                     body |-> ReceivedBody(o, modelCalls)])
            /\ IF message = NoError
               THEN LET gr == SuccessRecord(o.body, resp)
                        hist == Append(responseHistory, gr)
                    IN  /\ IF BreakOnSuccess
                           THEN Return(error, gr, hist, retryAttempt)
                           ELSE LoopHead(error, gr, hist, retryAttempt)
                        /\ UNCHANGED delayLog
               ELSE LET gr == FailureRecord(message, resp)
                        hist == Append(responseHistory, gr)
                        err == FailureError(message)
                    IN  IF DelayDue(retryAttempt)
                        THEN /\ delayLog' = Append(delayLog, retryAttempt)
                             /\ pc' = "delaying"
                             /\ error' = err
                             /\ gptResponse' = gr
                             /\ responseHistory' = hist
                             /\ UNCHANGED <<retryAttempt, result, modelCalls>>
                        ELSE /\ LoopHead(err, gr, hist, retryAttempt)
                             /\ UNCHANGED delayLog
    /\ UNCHANGED <<cfgVars, safeInput, moderationResult, moderationCalls,
                   moderationOutcome, thrown, batchVars>>

CallSettle == \E o \in Outcomes : Settle(o) /\ UNCHANGED settled

\* the same step, with the outcome kept for inspection
CallSettleObserved == \E o \in Outcomes : Settle(o) /\ settled' = o

DelayElapsed ==
    /\ pc = "delaying"
    /\ LoopHead(error, gptResponse, responseHistory, retryAttempt)
    /\ UNCHANGED <<cfgVars, response, safeInput, moderationResult,
                   moderationCalls, delayLog, attemptLog, moderationOutcome,
                   thrown, settled, batchVars>>

Next ==
    \/ Request
    \/ ModerationReject
    \/ ModerationResolve
    \/ CallSettle
    \/ DelayElapsed

Spec == Init /\ [][Next]_vars

\* requests without moderation and without retry delay, every outcome observed
InitObserved ==
    /\ Init
    /\ ~moderation
    /\ nMessages = 1
    /\ retryDelay = "zero"
    /\ retryCount <= MaxObservedRetryCount

NextObserved ==
    \/ Request
    \/ CallSettleObserved

SpecObserved == InitObserved /\ [][NextObserved]_vars

\* requests of the first revision with well-formed and malformed input
InitInput ==
    /\ rev = 1
    /\ moderation \in BOOLEAN
    /\ given \in {"prompt", "messages", "none"}
    /\ nMessages \in (CASE given = "prompt" -> {1}
                         [] given = "messages" -> {0, 1, 2}
                         [] OTHER -> {0})
    /\ retryCount \in -1..MaxObservedRetryCount
    /\ retryDelay \in {"zero", "number"}
    /\ validateJson = FALSE
    /\ imageModel = FALSE
    /\ minTokens = 1
    /\ minResponseTime = 0
    /\ pc = "idle"
    /\ retryAttempt = 0
    /\ error = NoError
    /\ response = NoBody
    /\ gptResponse = null
    /\ responseHistory = <<>>
    /\ safeInput = null
    /\ moderationResult = null
    /\ result = null
    /\ modelCalls = 0
    /\ moderationCalls = 0
    /\ delayLog = <<>>
    /\ attemptLog = <<>>
    /\ moderationOutcome = "none"
    /\ thrown = NoError
    /\ settled = null
    /\ form = "lib1"
    /\ concurrency = 1
    /\ onResponse = FALSE
    /\ items = <<>>
    /\ orphans = 0
    /\ parPc = "idle"
    /\ results = <<>>
    /\ onResponseCalls = <<>>
    /\ CallGivesEveryOption
    /\ verbose = "false"
    /\ moderationThreshold = ConstructorThreshold

SpecInput == InitInput /\ [][Next]_vars

\* ------------------------------------------- successive calls of request()

\* the requestOptions a caller may pass: any of the options, or none
CallOptions ==
    {[f \in D |-> full[f]] :
        full \in [retryCount : 0..MaxObservedRetryCount,
                  retryDelay : {"zero", "number"},
                  minTokens : {0, 1}],
        D \in SUBSET OptionNames}

\* an instance built with any defaults, and its first call
InitCalls ==
    /\ rev \in {1, 2}
    /\ moderation = FALSE
    /\ nMessages = 1
    /\ given = "prompt"
    /\ defaults \in [retryCount : 0..MaxObservedRetryCount,
                      retryDelay : {"zero", "number"},
                      minTokens : {0, 1}]
    /\ options \in CallOptions
    /\ overridden = {}
    /\ requestOptions = [f \in {} |-> 0]
    /\ retryCount = Resolve("retryCount", options)
    /\ retryDelay = Resolve("retryDelay", options)
    /\ minTokens = Resolve("minTokens", options)
    /\ validateJson = FALSE
    /\ imageModel = FALSE
    /\ minResponseTime = 0
    /\ pc = "idle"
    /\ retryAttempt = 0
    /\ error = NoError
    /\ response = NoBody
    /\ gptResponse = null
    /\ responseHistory = <<>>
    /\ safeInput = null
    /\ moderationResult = null
    /\ result = null
    /\ modelCalls = 0
    /\ moderationCalls = 0
    /\ delayLog = <<>>
    /\ attemptLog = <<>>
    /\ moderationOutcome = "none"
    /\ thrown = NoError
    /\ settled = null
    /\ form = "lib1"
    /\ concurrency = 1
    /\ onResponse = FALSE
    /\ items = <<>>
    /\ orphans = 0
    /\ parPc = "idle"
    /\ results = <<>>
    /\ onResponseCalls = <<>>
    /\ verbose = "false"
    /\ moderationThreshold = ConstructorThreshold

\* the caller calls request() again on the same instance with requestOptions
\* opts: the destructuring at the head of request()
NextCall(opts) ==
    /\ pc \in {"returned", "threw"}
    /\ options' = opts
    /\ overridden' = overridden \cup
           {f \in DOMAIN options : options[f] # defaults[f]}
    /\ retryCount' = Resolve("retryCount", opts)
    /\ retryDelay' = Resolve("retryDelay", opts)
    /\ minTokens' = Resolve("minTokens", opts)
    /\ pc' = "idle"
    /\ retryAttempt' = 0
    /\ error' = NoError
    /\ response' = NoBody
    /\ gptResponse' = null
    /\ responseHistory' = <<>>
    /\ safeInput' = null
    /\ moderationResult' = null
    /\ result' = null
    /\ modelCalls' = 0
    /\ moderationCalls' = 0
    /\ delayLog' = <<>>
    /\ attemptLog' = <<>>
    /\ moderationOutcome' = "none"
    /\ thrown' = NoError
    /\ settled' = null
    /\ UNCHANGED <<rev, moderation, nMessages, given, validateJson,
                   imageModel, minResponseTime, defaults, requestOptions,
                   verbose, moderationThreshold, batchVars>>

\* what the remote calls of these requests may do
CallOutcomes ==
    {o \in Outcomes : o.time = 1 /\ (o.kind = "resolve" =>
                                        ~o.body.json /\ o.body.usage.present
                                        /\ o.body.usage.completion_tokens
                                               \in {1, 2})}

NextCalls ==
    \/ Request
    \/ \E o \in CallOutcomes : Settle(o) /\ UNCHANGED settled
    \/ DelayElapsed
    \/ \E opts \in CallOptions : NextCall(opts)

SpecCalls == InitCalls /\ [][NextCalls]_vars

\* ------------------------------------------------------------ parallel()

\* a value named by what it is and by the item whose request produced it
Part(tag, i) == [part |-> tag, item |-> i]

\* return [error, gptResponse, responseHistory] of the request of item i
RequestReturn(i) ==
    <<Part("error", i), Part("gptResponse", i), Part("responseHistory", i)>>

\* the parallel() of src/lib, first and second revision
LibForms == {"lib1", "lib2"}

\* the parallel() that return [errors, responses, rawResponses]: the first
\* and the second class of src/unnamed/part_002, and the ChatGpt class of
\* src/unnamed/part_001, which gives each task a priority
LegacyForms == {"legacy", "legacy2", "priority"}

\* what the task given to queue.add resolves with
TaskValue(i) ==
    IF form \in LegacyForms
    THEN <<Part("value", i), Part("index", i), Part("prompt", i)>>
    ELSE RequestReturn(i)

\* ([response, index, prompt]) => onResponse(response, index, prompt)
CompletedArguments(value) == <<value[1], value[2], value[3]>>

\* queue.on("completed", ...) is present in this parallel()
HandlerRegistered == form # "lib2"

Completed(i) ==
    IF HandlerRegistered /\ onResponse
    THEN Append(onResponseCalls, CompletedArguments(TaskValue(i)))
    ELSE onResponseCalls

\* await Promise.all(promises) when every promise is fulfilled
PromiseAll == [i \in DOMAIN items |-> TaskValue(i)]

CatchTypeError == "TypeError"

\* getMessages() yields messages = null for an object without content
RequestParametersInvalid(it) == form = "lib1" /\ it.kind = "noContent"

\* the catch block reads responseContent.content while responseContent is null
CatchThrows(o) == form = "legacy" /\ o.kind # "resolve"

\* validateParallelParameters of this parallel() throws: the first legacy
\* class wants onResponse to be a function and verbose to be a level name,
\* and it and the first revision want retryDelay to be a number or null
ParallelParametersInvalid ==
    \/ form = "legacy" /\ ~onResponse
    \/ form = "legacy" /\ verbose \notin {"NONE", "INFO", "DEBUG"}
    \/ form \in {"lib1", "legacy"} /\ retryDelay = "function"

\* logInfo("Error:", error) names a binding that does not exist
AggregationThrows == form = "legacy"

\* what the remote calls of a batch may do: every kind, every token count
BatchOutcomes ==
    {o \in Outcomes : o.time = 1 /\ (o.kind = "resolve" =>
                                        ~o.body.json /\ o.body.usage.present)}

\* the parallel() of the second legacy class and of the ChatGpt class do not
\* pass minTokens on
MinTokensForwarded == form \notin {"legacy2", "priority"}

\* the second legacy class prefixes its veto message
ItemModerationError(si) ==
    IF form = "legacy2" THEN "ERROR: " \o ModerationError(si)
    ELSE ModerationError(si)

\* gptResponse after a failed attempt: the catch block of the second legacy
\* class and of the ChatGpt class leaves it as it was
FailureResponse(it) ==
    IF form \in {"legacy2", "priority"} THEN it.gptResponse ELSE "failure"

\* errorList: the non-null errors of the results, in result order
ErrorList ==
    LET failed == SelectSeq([i \in DOMAIN items |-> i],
                            LAMBDA i : items[i].error # NoError)
    IN  [k \in 1..Len(failed) |-> Part("error", failed[k])]

\* [errors, responses, rawResponses]; an array of errors is written
\* [list |-> ...] to keep it apart from null
FinalResults ==
    <<IF Len(ErrorList) > 0 THEN [list |-> ErrorList] ELSE null,
      [i \in DOMAIN items |-> Part("gptResponse", i)],
      [i \in DOMAIN items |-> Part("value", i)]>>

ItemKinds == IF form = "lib1" THEN {"prompt", "noContent"} ELSE {"prompt"}

\* a task added to the queue; priority is message?.priority || 0 where the
\* parallel() gives one to queue.add, and the queue's default 0 elsewhere
QueuedItem(k, p) ==
    [kind |-> k, priority |-> p, pc |-> "queued", retryAttempt |-> 0,
     error |-> NoError, gptResponse |-> "null"]

ItemReturn(it, err, gr) ==
    [it EXCEPT !.pc = "returned", !.error = err, !.gptResponse = gr]

ItemReject(it, message) ==
    [it EXCEPT !.pc = "rejected", !.error = message]

\* a request that rejects when its attempts are used up
ItemExhaustedRejects(it, err, gr) ==
    [it EXCEPT !.pc = "rejected", !.error = err, !.gptResponse = gr]

ItemExhausted(it, err, gr) == ItemReturn(it, err, gr)

\* a loop counter kept on the instance and shared by the requests of a batch
ItemLoopHeadSharedCounter(it, err, gr, ra) ==
    LET shared == CHOOSE m \in {items[j].retryAttempt : j \in DOMAIN items} :
                      \A j \in DOMAIN items : items[j].retryAttempt <= m
    IN  IF LoopCondition(IF ra > shared THEN ra ELSE shared)
        THEN [it EXCEPT !.pc = "calling", !.retryAttempt = ra + 1,
                        !.error = AttemptStartError(err), !.gptResponse = gr]
        ELSE ItemExhausted(it, err, gr)

ItemLoopHead(it, err, gr, ra) ==
    IF LoopCondition(ra)
    THEN [it EXCEPT !.pc = "calling", !.retryAttempt = ra + 1,
                    !.error = AttemptStartError(err), !.gptResponse = gr]
    ELSE ItemExhausted(it, err, gr)

\* tasks the queue has started and that have not settled
Running == {i \in DOMAIN items :
               items[i].pc \in {"moderating", "calling", "delaying"}}

\* remote model calls started and not yet settled
InFlight == Cardinality({i \in DOMAIN items : items[i].pc = "calling"}) + orphans

Advance(i, it) ==
    /\ items' = [items EXCEPT ![i] = it]
    /\ onResponseCalls' =
           IF it.pc = "returned" THEN Completed(i) ELSE onResponseCalls

InitParallel ==
    /\ form \in {"lib1", "lib2", "legacy", "legacy2"}
    /\ rev = (IF form = "lib2" THEN 2 ELSE 1)
    /\ moderation \in BOOLEAN
    /\ nMessages = 1
    /\ given = "messages"
    /\ retryCount \in 0..MaxBatchRetryCount
    /\ retryDelay \in {"zero", "number", "function"}
    /\ validateJson = FALSE
    /\ imageModel = FALSE
    /\ minTokens = (IF MinTokensForwarded THEN 1 ELSE 0)
    /\ minResponseTime = 0
    /\ pc = "idle"
    /\ retryAttempt = 0
    /\ error = NoError
    /\ response = NoBody
    /\ gptResponse = null
    /\ responseHistory = <<>>
    /\ safeInput = null
    /\ moderationResult = null
    /\ result = null
    /\ modelCalls = 0
    /\ moderationCalls = 0
    /\ delayLog = <<>>
    /\ attemptLog = <<>>
    /\ moderationOutcome = "none"
    /\ thrown = NoError
    /\ settled = null
    /\ concurrency \in 1..MaxConcurrency
    /\ onResponse \in BOOLEAN
    /\ items \in [1..NItems -> {QueuedItem(k, 0) : k \in ItemKinds}]
    /\ orphans = 0
    /\ parPc = "idle"
    /\ results = <<>>
    /\ onResponseCalls = <<>>
    /\ CallGivesEveryOption
    /\ verbose \in (IF form = "legacy" THEN {"false", "NONE"} ELSE {"false"})
    /\ moderationThreshold \in
           (IF moderation
            THEN {ConstructorThreshold, DefaultModerationThreshold}
            ELSE {ConstructorThreshold})

\* the task of an item starts: request() up to its first await
Started(it) ==
    IF RequestParametersInvalid(it) THEN ItemReject(it, MissingPrompt)
    ELSE IF ModerationRuns
    THEN [it EXCEPT !.pc = "moderating", !.retryAttempt = InitialRetryAttempt]
    ELSE ItemLoopHead(it, NoError, "null", InitialRetryAttempt)

\* task i leaves the queue before task j: greater priority first, and among
\* equal priorities the one added first.  The queue is the p-queue package,
\* which is not part of the sources; its order is taken from the
\* specification of the dispatcher
Precedes(i, j) ==
    \/ items[i].priority > items[j].priority
    \/ items[i].priority = items[j].priority /\ i < j

\* parallel() up to await Promise.all(promises): every queue.add that finds
\* a free slot starts its task at once, the others wait in the queue
Parallel ==
    /\ parPc = "idle"
    /\ IF ParallelParametersInvalid
       THEN parPc' = "invalid" /\ UNCHANGED items
       ELSE /\ parPc' = "awaiting"
            /\ items' = [i \in DOMAIN items |->
                             IF i <= concurrency THEN Started(items[i])
                             ELSE items[i]]
    /\ UNCHANGED <<cfgVars, requestVars, form, concurrency, onResponse,
                   orphans, results, onResponseCalls>>

\* a slot is free and the queue starts the waiting task that is first in it
ItemStart(i) ==
    /\ parPc \notin {"idle", "invalid"}
    /\ items[i].pc = "queued"
    /\ \A j \in DOMAIN items \ {i} :
           items[j].pc = "queued" => Precedes(i, j)
    /\ Cardinality(Running) < concurrency
    /\ Advance(i, Started(items[i]))
    /\ UNCHANGED <<cfgVars, requestVars, form, concurrency, onResponse,
                   orphans, parPc, results>>

\* request() of an item from the rejection of its moderation call on
ModerationRejected(it) ==
    IF ModerationFailureIsFatal
    THEN ItemReject(it, ModerationFailure)
    ELSE ItemLoopHead(it, it.error, it.gptResponse, it.retryAttempt)

\* request() of an item from the answer mr of its moderation call on
ModerationResolved(it, mr) ==
    IF IsVetoed(SafeInput(mr))
    THEN ItemReturn(it, ItemModerationError(SafeInput(mr)), "null")
    ELSE ItemLoopHead(it, it.error, it.gptResponse, it.retryAttempt)

\* request() of an item from the outcome o of its queue.add(...) on
AttemptSettled(it, o) ==
    LET message == QueueAddError(o)
    IN  IF message = NoError THEN ItemReturn(it, it.error, "success")
        ELSE IF CatchThrows(o) THEN ItemReject(it, CatchTypeError)
        ELSE IF DelayDue(it.retryAttempt)
        THEN [it EXCEPT !.pc = "delaying",
                        !.error = FailureError(message),
                        !.gptResponse = FailureResponse(it)]
        ELSE ItemLoopHead(it, FailureError(message),
                          FailureResponse(it), it.retryAttempt)

ItemModerationReject(i) ==
    /\ items[i].pc = "moderating"
    /\ Advance(i, ModerationRejected(items[i]))
    /\ UNCHANGED <<cfgVars, requestVars, form, concurrency, onResponse,
                   orphans, parPc, results>>

ItemModerationResolve(i) ==
    /\ items[i].pc = "moderating"
    /\ \E mr \in ModerationResults :
           Advance(i, ModerationResolved(items[i], mr))
    /\ UNCHANGED <<cfgVars, requestVars, form, concurrency, onResponse,
                   orphans, parPc, results>>

\* the code of item i that runs when its queue.add(...) settles with outcome o
ItemSettle(i, o) ==
    /\ items[i].pc = "calling"
    /\ orphans' = IF o.kind = "timeout" THEN orphans + 1 ELSE orphans
    /\ Advance(i, AttemptSettled(items[i], o))
    /\ UNCHANGED <<cfgVars, requestVars, form, concurrency, onResponse,
                   parPc, results>>

ItemDelayElapsed(i) ==
    /\ items[i].pc = "delaying"
    /\ Advance(i, ItemLoopHead(items[i], items[i].error,
                               items[i].gptResponse, items[i].retryAttempt))
    /\ UNCHANGED <<cfgVars, requestVars, form, concurrency, onResponse,
                   orphans, parPc, results>>

\* a remote call whose attempt had timed out settles; nobody awaits it
OrphanSettle ==
    /\ orphans > 0
    /\ orphans' = orphans - 1
    /\ UNCHANGED <<cfgVars, requestVars, form, concurrency, onResponse, items,
                   parPc, results, onResponseCalls>>

\* Promise.all is fulfilled: the rest of parallel()
ParallelResolve ==
    /\ parPc = "awaiting"
    /\ \A i \in DOMAIN items : items[i].pc = "returned"
    /\ IF AggregationThrows
       THEN parPc' = "threw" /\ UNCHANGED results
       ELSE /\ parPc' = "returned"
            /\ results' = IF form \in LegacyForms THEN FinalResults
                          ELSE PromiseAll
    /\ UNCHANGED <<cfgVars, requestVars, form, concurrency, onResponse, items,
                   orphans, onResponseCalls>>

\* Promise.all rejects as soon as one of its promises does
ParallelReject ==
    /\ parPc = "awaiting"
    /\ \E i \in DOMAIN items : items[i].pc = "rejected"
    /\ parPc' = "rejected"
    /\ UNCHANGED <<cfgVars, requestVars, form, concurrency, onResponse, items,
                   orphans, results, onResponseCalls>>

NextParallel ==
    \/ Parallel
    \/ \E i \in DOMAIN items : ItemStart(i)
    \/ \E i \in DOMAIN items : ItemModerationReject(i)
    \/ \E i \in DOMAIN items : ItemModerationResolve(i)
    \/ \E i \in DOMAIN items, o \in BatchOutcomes : ItemSettle(i, o)
    \/ \E i \in DOMAIN items : ItemDelayElapsed(i)
    \/ OrphanSettle
    \/ ParallelResolve
    \/ ParallelReject

SpecParallel == InitParallel /\ [][NextParallel]_vars

\* well-formed batches given, without a callback, to the parallel() of src/lib
InitParallelLib ==
    /\ InitParallel
    /\ form \in LibForms
    /\ retryDelay # "function"
    /\ ~onResponse
    /\ \A i \in DOMAIN items : items[i].kind = "prompt"

\* every remote call settles or times out, every timer fires, and the event
\* loop runs every continuation that is ready
SpecParallelFair ==
    InitParallelLib /\ [][NextParallel]_vars /\ WF_vars(NextParallel)

\* the priority property that a message given to this parallel() may carry:
\* none, or a number
MessagePriorities ==
    IF form = "priority"
    THEN {[given |-> FALSE, value |-> 0]}
             \cup {[given |-> TRUE, value |-> p] : p \in 0..MaxPriority}
    ELSE {[given |-> FALSE, value |-> 0]}

\* a parallel() that hands no priority to queue.add
TaskPriorityNotPassed(m) == 0

\* the priority that parallel() hands to queue.add with the task of a
\* message: message?.priority || 0 in the ChatGpt class; src/lib hands none
\* and the task has the queue's default, 0
TaskPriority(m) ==
    IF form # "priority" THEN 0
    ELSE IF ~m.given \/ m.value = 0 THEN 0
    ELSE m.value

\* the task of a message, added to the queue at the message's position in
\* the list
PriorityItem(m) ==
    [kind |-> "prompt", priority |-> TaskPriority(m), message |-> m,
     pc |-> "queued", retryAttempt |-> 0, error |-> NoError,
     gptResponse |-> "null"]

\* batches of single-attempt requests without moderation, given to the
\* parallel() of the ChatGpt class and of the first revision
InitPriority ==
    /\ form \in {"priority", "lib1"}
    /\ rev = 1
    /\ moderation = FALSE
    /\ nMessages = 1
    /\ given = "messages"
    /\ retryCount = 0
    /\ retryDelay = "zero"
    /\ validateJson = FALSE
    /\ imageModel = FALSE
    /\ minTokens = (IF MinTokensForwarded THEN 1 ELSE 0)
    /\ minResponseTime = 0
    /\ pc = "idle"
    /\ retryAttempt = 0
    /\ error = NoError
    /\ response = NoBody
    /\ gptResponse = null
    /\ responseHistory = <<>>
    /\ safeInput = null
    /\ moderationResult = null
    /\ result = null
    /\ modelCalls = 0
    /\ moderationCalls = 0
    /\ delayLog = <<>>
    /\ attemptLog = <<>>
    /\ moderationOutcome = "none"
    /\ thrown = NoError
    /\ settled = null
    /\ concurrency \in 1..MaxConcurrency
    /\ onResponse = FALSE
    /\ items \in [1..NPriorityItems ->
                     {PriorityItem(m) : m \in MessagePriorities}]
    /\ orphans = 0
    /\ parPc = "idle"
    /\ results = <<>>
    /\ onResponseCalls = <<>>
    /\ CallGivesEveryOption
    /\ verbose = "false"
    /\ moderationThreshold = ConstructorThreshold

\* what the remote calls of these batches may do: every kind, every token
\* count, content that is JSON or not
PriorityOutcomes ==
    {o \in Outcomes : o.time = 1 /\ (o.kind = "resolve" => o.body.usage.present)}

NextPriority ==
    \/ Parallel
    \/ \E i \in DOMAIN items : ItemStart(i)
    \/ \E i \in DOMAIN items, o \in PriorityOutcomes : ItemSettle(i, o)
    \/ OrphanSettle
    \/ ParallelResolve

SpecPriority == InitPriority /\ [][NextPriority]_vars

\* ------------------------------------- parallel() with each item's own calls

\* a queued item together with what its own request() has seen and kept: the
\* answer of its moderation call, the outcomes of its model calls, and its
\* responseHistory
TracedItem ==
    [kind |-> "prompt", priority |-> 0, pc |-> "queued", retryAttempt |-> 0,
     error |-> NoError, gptResponse |-> "null",
     moderationResult |-> null, calls |-> <<>>, responseHistory |-> <<>>]

\* what the remote model calls of these batches may do
TracedOutcomes ==
    {o \in BatchOutcomes :
        /\ o.kind \in {"reject", "resolve"}
        /\ o.kind = "resolve" => o.body.usage.completion_tokens \in {1, 2}}

TracedModerationReject(i) ==
    /\ items[i].pc = "moderating"
    /\ Advance(i, ModerationRejected(items[i]))
    /\ UNCHANGED <<cfgVars, requestVars, form, concurrency, onResponse,
                   orphans, parPc, results>>

TracedModerationResolve(i) ==
    /\ items[i].pc = "moderating"
    /\ \E mr \in ModerationResults :
           Advance(i, [ModerationResolved(items[i], mr)
                          EXCEPT !.moderationResult = mr])
    /\ UNCHANGED <<cfgVars, requestVars, form, concurrency, onResponse,
                   orphans, parPc, results>>

\* the code of item i that runs when its queue.add(...) settles with outcome
\* o: the record of the attempt goes to the responseHistory of this request
TracedItemSettle(i, o) ==
    /\ items[i].pc = "calling"
    /\ Advance(i, [AttemptSettled(items[i], o)
                      EXCEPT !.calls = Append(@, o),
                             !.responseHistory =
                                 Append(@, [item |-> i,
                                            error |-> QueueAddError(o)])])
    /\ UNCHANGED <<cfgVars, requestVars, form, concurrency, onResponse,
                   orphans, parPc, results>>

InitTraced ==
    /\ form \in LibForms
    /\ rev = (IF form = "lib2" THEN 2 ELSE 1)
    /\ moderation \in BOOLEAN
    /\ nMessages = 1
    /\ given = "messages"
    /\ retryCount \in 0..MaxBatchRetryCount
    /\ retryDelay \in {"zero", "number"}
    /\ validateJson = FALSE
    /\ imageModel = FALSE
    /\ minTokens = 1
    /\ minResponseTime = 0
    /\ pc = "idle"
    /\ retryAttempt = 0
    /\ error = NoError
    /\ response = NoBody
    /\ gptResponse = null
    /\ responseHistory = <<>>
    /\ safeInput = null
    /\ moderationResult = null
    /\ result = null
    /\ modelCalls = 0
    /\ moderationCalls = 0
    /\ delayLog = <<>>
    /\ attemptLog = <<>>
    /\ moderationOutcome = "none"
    /\ thrown = NoError
    /\ settled = null
    /\ concurrency \in 1..MaxConcurrency
    /\ onResponse = FALSE
    /\ items = [i \in 1..NItems |-> TracedItem]
    /\ orphans = 0
    /\ parPc = "idle"
    /\ results = <<>>
    /\ onResponseCalls = <<>>
    /\ CallGivesEveryOption
    /\ verbose = "false"
    /\ moderationThreshold = ConstructorThreshold

NextTraced ==
    \/ Parallel
    \/ \E i \in DOMAIN items : ItemStart(i)
    \/ \E i \in DOMAIN items : TracedModerationReject(i)
    \/ \E i \in DOMAIN items : TracedModerationResolve(i)
    \/ \E i \in DOMAIN items, o \in TracedOutcomes : TracedItemSettle(i, o)
    \/ \E i \in DOMAIN items : ItemDelayElapsed(i)
    \/ ParallelResolve
    \/ ParallelReject

SpecTraced == InitTraced /\ [][NextTraced]_vars

\* ------------------------------------------- ChatGpt.FunctionCall (legacy)

NotAFunctionCall == "Not a function call"
\* fromJsonToObject calls this.logger(...), which the class never defines
LoggerTypeError == "this.logger is not a function"
\* getToken reads response.usage.completion_tokens without a guard
UsageTypeError == "Cannot read properties of undefined"

\* what the remote call of one FunctionCall attempt can do
FunctionCallOutcomes ==
    {[kind |-> "resolve", function_call |-> f, arguments |-> a, usage |-> u,
      tokens |-> n, time |-> t] :
        f \in BOOLEAN, a \in {"invalid", "empty", "object"}, u \in BOOLEAN,
        n \in {1, 2}, t \in Elapsed}
    \cup
    {[kind |-> k, function_call |-> FALSE, arguments |-> "invalid",
      usage |-> FALSE, tokens |-> 1, time |-> 1] :
        k \in {"reject", "timeout"}}

\* Math.round(responseTime / tokens) for a positive token count
TimePerToken(responseTime, tokens) ==
    (2 * responseTime + tokens) \div (2 * tokens)

\* the try block of one attempt from queue.add(...) on; NoError when it
\* reaches the break.  The queue has no throwOnTimeout, so a timed-out call
\* resolves with undefined.
FunctionCallError(o) ==
    CASE o.kind = "reject" -> TransportError
      [] o.kind = "timeout" -> RequestTimedOut
      [] ~o.function_call -> NotAFunctionCall
      [] o.arguments = "invalid" -> LoggerTypeError
      [] o.arguments = "empty" -> EmptyResponse
      [] o.time <= minResponseTime -> UnreliableTime
      [] ~o.usage -> UsageTypeError
      [] OTHER -> NoError

\* retryDelay > 0 && (await this.delay(retryDelay)), in the catch block
FunctionCallDelayDue(rc) == retryDelay = "number"

\* while (retryCount < noRetries) { retryCount++; ... await queue.add(...)
\* the model's retryCount is noRetries, retryAttempt is the loop counter
FunctionCallLoopHead(err, gr, hist, rc) ==
    /\ error' = err
    /\ gptResponse' = gr
    /\ responseHistory' = hist
    /\ IF rc < retryCount
       THEN /\ retryAttempt' = rc + 1
            /\ modelCalls' = modelCalls + 1
            /\ pc' = "calling"
            /\ UNCHANGED result
       ELSE /\ pc' = "returned"
            /\ result' = [error |-> err, response |-> gr, history |-> hist]
            /\ UNCHANGED <<retryAttempt, modelCalls>>

FunctionCall ==
    /\ pc = "idle"
    /\ FunctionCallLoopHead(error, gptResponse, responseHistory, retryAttempt)
    /\ UNCHANGED <<cfgVars, response, safeInput, moderationResult,
                   moderationCalls, delayLog, attemptLog, moderationOutcome,
                   thrown, settled, batchVars>>

\* the code that runs when queue.add(...) settles with outcome o
FunctionCallSettle(o) ==
    /\ pc = "calling"
    /\  LET message == FunctionCallError(o)
        IN  /\ attemptLog' = Append(attemptLog,
                    [kind |-> o.kind, error |-> message,
                     body |-> IF o.kind = "resolve" THEN modelCalls
                              ELSE NoBody])
            /\ IF message = NoError
               THEN LET gr == [content |-> modelCalls,
                               time_per_token |->
                                   TimePerToken(o.time, o.tokens)]
                        hist == Append(responseHistory,
                                    [status |-> "success", response |-> gr,
                                     responseTime |-> o.time])
                    IN  /\ pc' = "returned"
                        /\ result' = [error |-> error, response |-> gr,
                                      history |-> hist]
                        /\ gptResponse' = gr
                        /\ responseHistory' = hist
                        /\ UNCHANGED <<error, retryAttempt, modelCalls,
                                       delayLog>>
               ELSE LET hist == Append(responseHistory,
                                    [status |-> "failure",
                                     response |-> message,
                                     responseTime |-> o.time])
                    IN  IF FunctionCallDelayDue(retryAttempt)
                        THEN /\ delayLog' = Append(delayLog, retryAttempt)
                             /\ pc' = "delaying"
                             /\ error' = message
                             /\ responseHistory' = hist
                             /\ UNCHANGED <<gptResponse, retryAttempt,
                                            result, modelCalls>>
                        ELSE /\ FunctionCallLoopHead(message, gptResponse,
                                                     hist, retryAttempt)
                             /\ UNCHANGED delayLog
    /\ UNCHANGED <<cfgVars, response, safeInput, moderationResult,
                   moderationCalls, moderationOutcome, thrown, settled,
                   batchVars>>

FunctionCallDelayElapsed ==
    /\ pc = "delaying"
    /\ FunctionCallLoopHead(error, gptResponse, responseHistory, retryAttempt)
    /\ UNCHANGED <<cfgVars, response, safeInput, moderationResult,
                   moderationCalls, delayLog, attemptLog, moderationOutcome,
                   thrown, settled, batchVars>>

\* an instance of the legacy class; noRetries and retryDelay as constructed
InitFunctionCall ==
    /\ rev = 0
    /\ moderation = FALSE
    /\ nMessages = 1
    /\ given = "messages"
    /\ retryCount \in 0..MaxRetryCount
    /\ retryDelay \in {"zero", "number"}
    /\ validateJson = FALSE
    /\ imageModel = FALSE
    /\ minTokens = 0
    /\ minResponseTime \in {0, 1}
    /\ pc = "idle"
    /\ retryAttempt = 0
    /\ error = NoError
    /\ response = NoBody
    /\ gptResponse = null
    /\ responseHistory = <<>>
    /\ safeInput = null
    /\ moderationResult = null
    /\ result = null
    /\ modelCalls = 0
    /\ moderationCalls = 0
    /\ delayLog = <<>>
    /\ attemptLog = <<>>
    /\ moderationOutcome = "none"
    /\ thrown = NoError
    /\ settled = null
    /\ form = "lib1"
    /\ concurrency = 1
    /\ onResponse = FALSE
    /\ items = <<>>
    /\ orphans = 0
    /\ parPc = "idle"
    /\ results = <<>>
    /\ onResponseCalls = <<>>
    /\ CallGivesEveryOption
    /\ verbose = "false"
    /\ moderationThreshold = ConstructorThreshold

NextFunctionCall ==
    \/ FunctionCall
    \/ \E o \in FunctionCallOutcomes : FunctionCallSettle(o)
    \/ FunctionCallDelayElapsed

SpecFunctionCall == InitFunctionCall /\ [][NextFunctionCall]_vars

\* ---------------------------------------------- ChatGpt.Parallel (legacy)

\* promise() where promise is the Promise that GptCall returned
NotAFunction == "promise is not a function"

\* the element of results of a task that the queue's timeout resolved with
\* undefined
UndefinedResult == <<>>

\* a message object of messageObjList; "plain" has no functionSignature
ChatGptItemKinds == {"functionSignature", "plain"}

\* a task added to the dispatcher queue.  task is what queue.add's promise
\* did: "pending", "value", "undefined" (the queue's timeout) or "rejected";
\* eager is the GptCall that Parallel() makes for an item without
\* functionSignature while it builds the task list: "none", "running", "done"
ChatGptItem(k) ==
    [kind |-> k, priority |-> 0, pc |-> "queued", retryAttempt |-> 0,
     error |-> NoError, gptResponse |-> "null", task |-> "pending",
     eager |-> "none"]

\* messageObjList.map(...): promise = this.GptCall({...}) calls GptCall on
\* the spot
Mapped(it) ==
    IF it.kind = "plain" THEN [it EXCEPT !.eager = "running"] ELSE it

\* what the remote calls of such a batch may do
ChatGptOutcomes ==
    {o \in FunctionCallOutcomes :
        o.time = 1 /\ o.tokens = 1 /\
        (o.kind = "resolve" => o.usage /\ o.arguments = "object")}

\* return [error, gptResponse, statusHistory]: the task resolves with it
\* unless the queue has given the task up before
ChatGptReturn(it) ==
    [it EXCEPT !.pc = "returned",
               !.task = IF it.task = "pending" THEN "value" ELSE it.task]

ChatGptLoopHead(it, err, gr, rc) ==
    IF rc < retryCount
    THEN [it EXCEPT !.pc = "calling", !.retryAttempt = rc + 1,
                    !.error = err, !.gptResponse = gr]
    ELSE ChatGptReturn([it EXCEPT !.error = err, !.gptResponse = gr])

\* the dispatcher runs the task: promise() is FunctionCall up to its first
\* await, or a TypeError for an item without functionSignature
ChatGptStarted(it) ==
    IF it.kind = "plain"
    THEN [it EXCEPT !.pc = "rejected", !.task = "rejected",
                    !.error = NotAFunction]
    ELSE ChatGptLoopHead(it, NoError, "null", 0)

\* the timeout of the dispatcher queue: the task resolves with undefined,
\* FunctionCall itself goes on
TaskTimedOut(it) ==
    IF it.task = "pending" THEN [it EXCEPT !.task = "undefined"] ELSE it

\* tasks that hold a slot of the dispatcher queue
ChatGptRunning ==
    {i \in DOMAIN items :
        items[i].pc # "queued" /\ items[i].task = "pending"}

\* Parallel() up to await Promise.all(promises)
ChatGptParallel ==
    /\ parPc = "idle"
    /\ parPc' = "awaiting"
    /\ items' = [i \in DOMAIN items |->
                     IF i <= concurrency THEN ChatGptStarted(Mapped(items[i]))
                     ELSE Mapped(items[i])]
    /\ UNCHANGED <<cfgVars, requestVars, form, concurrency, onResponse,
                   orphans, results, onResponseCalls>>

\* the GptCall made while the task list was built returns; nothing reads
\* what it returns
ChatGptGptCallReturn(i) ==
    /\ items[i].eager = "running"
    /\ items' = [items EXCEPT ![i].eager = "done"]
    /\ UNCHANGED <<cfgVars, requestVars, form, concurrency, onResponse,
                   orphans, parPc, results, onResponseCalls>>

ChatGptTaskStart(i) ==
    /\ parPc # "idle"
    /\ items[i].pc = "queued"
    /\ \A j \in DOMAIN items \ {i} :
           items[j].pc = "queued" => Precedes(i, j)
    /\ Cardinality(ChatGptRunning) < concurrency
    /\ items' = [items EXCEPT ![i] = ChatGptStarted(items[i])]
    /\ UNCHANGED <<cfgVars, requestVars, form, concurrency, onResponse,
                   orphans, parPc, results, onResponseCalls>>

\* the code of item i that runs when its queue.add(...) settles with outcome
\* o.  The attempt's timer and the dispatcher's have the same length and the
\* dispatcher's started with the task, so when an attempt times out and
\* FunctionCall does not return at once, the dispatcher's timer has fired
ChatGptAttemptSettle(i, o) ==
    /\ items[i].pc = "calling"
    /\ orphans' = IF o.kind = "timeout" THEN orphans + 1 ELSE orphans
    /\  LET it == items[i]
            message == FunctionCallError(o)
            after ==
                IF message = NoError
                THEN ChatGptReturn([it EXCEPT !.gptResponse = "success"])
                ELSE IF FunctionCallDelayDue(it.retryAttempt)
                THEN [it EXCEPT !.pc = "delaying", !.error = message]
                ELSE ChatGptLoopHead(it, message, it.gptResponse,
                                     it.retryAttempt)
        IN  items' = [items EXCEPT ![i] =
                         IF o.kind = "timeout" THEN TaskTimedOut(after)
                         ELSE after]
    /\ UNCHANGED <<cfgVars, requestVars, form, concurrency, onResponse,
                   parPc, results, onResponseCalls>>

ChatGptDelayElapsed(i) ==
    /\ items[i].pc = "delaying"
    /\ items' = [items EXCEPT ![i] =
                     ChatGptLoopHead(items[i], items[i].error,
                                     items[i].gptResponse,
                                     items[i].retryAttempt)]
    /\ UNCHANGED <<cfgVars, requestVars, form, concurrency, onResponse,
                   orphans, parPc, results, onResponseCalls>>

\* the dispatcher's timer fires while the item, past its first attempt, is
\* still at work
ChatGptTaskTimeout(i) ==
    /\ items[i].task = "pending"
    /\ \/ items[i].pc = "delaying"
       \/ items[i].pc = "calling" /\ items[i].retryAttempt >= 2
    /\ items' = [items EXCEPT ![i] = TaskTimedOut(items[i])]
    /\ UNCHANGED <<cfgVars, requestVars, form, concurrency, onResponse,
                   orphans, parPc, results, onResponseCalls>>

\* Promise.all is fulfilled: return results
ChatGptParallelResolve ==
    /\ parPc = "awaiting"
    /\ \A i \in DOMAIN items : items[i].task \in {"value", "undefined"}
    /\ parPc' = "returned"
    /\ results' = [i \in DOMAIN items |->
                      IF items[i].task = "value" THEN RequestReturn(i)
                      ELSE UndefinedResult]
    /\ UNCHANGED <<cfgVars, requestVars, form, concurrency, onResponse, items,
                   orphans, onResponseCalls>>

ChatGptParallelReject ==
    /\ parPc = "awaiting"
    /\ \E i \in DOMAIN items : items[i].task = "rejected"
    /\ parPc' = "rejected"
    /\ UNCHANGED <<cfgVars, requestVars, form, concurrency, onResponse, items,
                   orphans, results, onResponseCalls>>

\* batches given to Parallel(); noRetries is the number of attempts
InitChatGpt ==
    /\ form = "chatgpt"
    /\ rev = 0
    /\ moderation = FALSE
    /\ nMessages = 1
    /\ given = "messages"
    /\ retryCount \in 0..(MaxBatchRetryCount + 1)
    /\ retryDelay \in {"zero", "number"}
    /\ validateJson = FALSE
    /\ imageModel = FALSE
    /\ minTokens = 0
    /\ minResponseTime = 0
    /\ pc = "idle"
    /\ retryAttempt = 0
    /\ error = NoError
    /\ response = NoBody
    /\ gptResponse = null
    /\ responseHistory = <<>>
    /\ safeInput = null
    /\ moderationResult = null
    /\ result = null
    /\ modelCalls = 0
    /\ moderationCalls = 0
    /\ delayLog = <<>>
    /\ attemptLog = <<>>
    /\ moderationOutcome = "none"
    /\ thrown = NoError
    /\ settled = null
    /\ concurrency \in 1..MaxConcurrency
    /\ onResponse = FALSE
    /\ items \in [1..NItems -> {ChatGptItem(k) : k \in ChatGptItemKinds}]
    /\ orphans = 0
    /\ parPc = "idle"
    /\ results = <<>>
    /\ onResponseCalls = <<>>
    /\ CallGivesEveryOption
    /\ verbose = "false"
    /\ moderationThreshold = ConstructorThreshold

NextChatGpt ==
    \/ ChatGptParallel
    \/ \E i \in DOMAIN items : ChatGptTaskStart(i)
    \/ \E i \in DOMAIN items, o \in ChatGptOutcomes :
           ChatGptAttemptSettle(i, o)
    \/ \E i \in DOMAIN items : ChatGptDelayElapsed(i)
    \/ \E i \in DOMAIN items : ChatGptTaskTimeout(i)
    \/ \E i \in DOMAIN items : ChatGptGptCallReturn(i)
    \/ OrphanSettle
    \/ ChatGptParallelResolve
    \/ ChatGptParallelReject

SpecChatGpt == InitChatGpt /\ [][NextChatGpt]_vars

\* ------------------------------------------ options of the items of a batch

\* the requestOptions that a batch or one of its items may carry
BatchOptions ==
    {[f \in D |-> full[f]] :
        full \in [retryCount : 0..MaxObservedRetryCount,
                  retryDelay : {"zero", "number"}],
        D \in SUBSET {"retryCount", "retryDelay"}}
ItemOptions ==
    {[f \in D |-> full[f]] :
        full \in [retryCount : 0..MaxObservedRetryCount],
        D \in SUBSET {"retryCount"}}

\* a message of the batch with its own requestOptions; a string, or an
\* object without requestOptions, has the empty record
MessageItem(o) == [requestOptions |-> o, pc |-> "queued"]

\* options.length > 0 on the item's options object: an options object has
\* no length unless the caller gave it one, and undefined > 0 is false
OptionsLengthPositive(o) ==
    IF "length" \in DOMAIN o THEN o["length"] > 0 ELSE FALSE

\* the requestOptions that createRequest hands to request(), messages aside
CreateRequestOptions(it) ==
    IF form = "lib2" THEN it.requestOptions
    ELSE IF OptionsLengthPositive(it.requestOptions) THEN it.requestOptions
    ELSE requestOptions

\* request() is called with opts: the destructuring at its head
BeginRequest(opts) ==
    /\ options' = opts
    /\ retryCount' = Resolve("retryCount", opts)
    /\ retryDelay' = Resolve("retryDelay", opts)
    /\ minTokens' = Resolve("minTokens", opts)
    /\ pc' = "idle"
    /\ retryAttempt' = 0
    /\ error' = NoError
    /\ response' = NoBody
    /\ gptResponse' = null
    /\ responseHistory' = <<>>
    /\ safeInput' = null
    /\ moderationResult' = null
    /\ result' = null
    /\ modelCalls' = 0
    /\ moderationCalls' = 0
    /\ delayLog' = <<>>
    /\ attemptLog' = <<>>
    /\ moderationOutcome' = "none"
    /\ thrown' = NoError
    /\ settled' = null
    /\ UNCHANGED <<rev, moderation, nMessages, given, validateJson,
                   imageModel, minResponseTime, defaults, overridden,
                   requestOptions, verbose, moderationThreshold>>

\* a batch with concurrency 1 on an instance built without options
InitItemOptions ==
    /\ form \in LibForms
    /\ rev = (IF form = "lib2" THEN 2 ELSE 1)
    /\ moderation = FALSE
    /\ nMessages = 1
    /\ given = "messages"
    /\ defaults = ConstructorDefaults
    /\ options = [f \in {} |-> 0]
    /\ overridden = {}
    /\ requestOptions \in BatchOptions
    /\ retryCount = defaults.retryCount
    /\ retryDelay = defaults.retryDelay
    /\ minTokens = defaults.minTokens
    /\ validateJson = FALSE
    /\ imageModel = FALSE
    /\ minResponseTime = 0
    /\ pc = "idle"
    /\ retryAttempt = 0
    /\ error = NoError
    /\ response = NoBody
    /\ gptResponse = null
    /\ responseHistory = <<>>
    /\ safeInput = null
    /\ moderationResult = null
    /\ result = null
    /\ modelCalls = 0
    /\ moderationCalls = 0
    /\ delayLog = <<>>
    /\ attemptLog = <<>>
    /\ moderationOutcome = "none"
    /\ thrown = NoError
    /\ settled = null
    /\ concurrency = 1
    /\ onResponse = FALSE
    /\ items \in [1..NItems -> {MessageItem(o) : o \in ItemOptions}]
    /\ orphans = 0
    /\ parPc = "idle"
    /\ results = <<>>
    /\ onResponseCalls = <<>>
    /\ verbose = "false"
    /\ moderationThreshold = ConstructorThreshold

\* parallel() up to await Promise.all: the queue starts the first task,
\* which calls request() with the options createRequest built
ItemsParallel ==
    /\ parPc = "idle"
    /\ parPc' = "awaiting"
    /\ items' = [items EXCEPT ![1].pc = "running"]
    /\ BeginRequest(CreateRequestOptions(items[1]))
    /\ UNCHANGED <<form, concurrency, onResponse, orphans, results,
                   onResponseCalls>>

\* the request of item i - 1 has returned: its task resolves and the queue
\* starts the task of item i
ItemsNext(i) ==
    /\ parPc = "awaiting"
    /\ i \in 2..Len(items)
    /\ items[i - 1].pc = "running"
    /\ pc = "returned"
    /\ items' = [items EXCEPT ![i - 1].pc = "done", ![i].pc = "running"]
    /\ results' = Append(results, result)
    /\ BeginRequest(CreateRequestOptions(items[i]))
    /\ UNCHANGED <<form, concurrency, onResponse, orphans, parPc,
                   onResponseCalls>>

\* the request of the last item has returned: Promise.all resolves
ItemsResolve ==
    /\ parPc = "awaiting"
    /\ items[Len(items)].pc = "running"
    /\ pc = "returned"
    /\ items' = [items EXCEPT ![Len(items)].pc = "done"]
    /\ results' = Append(results, result)
    /\ parPc' = "returned"
    /\ UNCHANGED <<cfgVars, requestVars, form, concurrency, onResponse,
                   orphans, onResponseCalls>>

\* what the remote calls of the items may do: answer or fail
ItemCallOutcomes ==
    {o \in CallOutcomes :
        \/ o.kind = "reject"
        \/ o.kind = "resolve" /\ o.body.usage.completion_tokens = 1}

NextItemOptions ==
    \/ ItemsParallel
    \/ \E i \in DOMAIN items : ItemsNext(i)
    \/ ItemsResolve
    \/ parPc = "awaiting" /\ Request
    \/ \E o \in ItemCallOutcomes : Settle(o) /\ UNCHANGED settled
    \/ DelayElapsed

SpecItemOptions == InitItemOptions /\ [][NextItemOptions]_vars

\* ---------------------------------------------------------- properties

Failed(entry) == entry.error # NoError
AllFailed(log) == \A i \in 1..Len(log) : Failed(log[i])
\* the first k entries failed and the last one succeeded
FailedThenSucceeded(log) ==
    /\ Len(log) >= 1
    /\ \A i \in 1..(Len(log) - 1) : Failed(log[i])
    /\ ~Failed(log[Len(log)])
LoopEntered == pc = "returned" /\ attemptLog # <<>>

\* C1: when every attempt of a request fails, request() made exactly
\* retryCount + 1 attempts and returns a history of exactly retryCount + 1
\* records, all failures, with a non-null error.
AllFailuresExhaustBudget ==
    (LoopEntered /\ AllFailed(attemptLog)) =>
        /\ modelCalls = retryCount + 1
        /\ Len(attemptLog) = retryCount + 1
        /\ Len(result.history) = retryCount + 1
        /\ AllFailed(result.history)
        /\ result.error # NoError

AllFailuresExhaustBudgetWitness ==
    /\ LoopEntered
    /\ AllFailed(attemptLog)
    /\ retryCount >= 1
    /\ Len(result.history) = retryCount + 1
    /\ \E i \in 1..Len(attemptLog) : attemptLog[i].kind = "reject"
    /\ \E i \in 1..Len(attemptLog) : attemptLog[i].kind = "resolve"

\* C2: when the first k attempts fail and attempt k + 1 succeeds, request()
\* returns error = null, a history of k + 1 records (k failures, then one
\* success) and the record of the successful response as final response.
SuccessAfterFailures ==
    (LoopEntered /\ FailedThenSucceeded(attemptLog)) =>
        LET n == Len(attemptLog) IN
        /\ n <= retryCount + 1
        /\ result.error = NoError
        /\ Len(result.history) = n
        /\ FailedThenSucceeded(result.history)
        /\ result.response = result.history[n]
        /\ result.response.response = n
        /\ attemptLog[n].body = n

SuccessAfterFailuresWitness ==
    /\ LoopEntered
    /\ FailedThenSucceeded(attemptLog)
    /\ Len(attemptLog) = retryCount + 1
    /\ retryCount >= 2
    /\ attemptLog[1].kind = "resolve"
    /\ result.error = NoError

SuccessSeen == \E i \in 1..Len(attemptLog) : ~Failed(attemptLog[i])
SuccessOnlyLast(hist) ==
    \A i \in 1..Len(hist) : ~Failed(hist[i]) => i = Len(hist)

\* C3: first success wins.  Once an attempt has succeeded no further remote
\* model call is started and no further delay is awaited, and a history
\* holds at most one success record, which is its last record.
FirstSuccessWins ==
    /\ [](SuccessOnlyLast(responseHistory) /\ SuccessOnlyLast(attemptLog))
    /\ [][SuccessSeen =>
            /\ modelCalls' = modelCalls
            /\ delayLog' = delayLog
            /\ attemptLog' = attemptLog
            /\ pc' = "returned"]_vars

FirstSuccessWinsWitness ==
    /\ LoopEntered
    /\ SuccessSeen
    /\ retryCount >= 1
    /\ Len(result.history) = 1
    /\ modelCalls = 1

\* C4: for a completed request whose retryDelay is a function or a positive
\* number, the delay was awaited exactly attemptsMade - 1 times.
DelayAwaitedBetweenAttempts ==
    (LoopEntered /\ retryDelay # "zero") => Len(delayLog) = modelCalls - 1

\* C5: the successive calls of a retryDelay function receive 0, 1, 2, ...,
\* the i-th call being made after the failed attempt with zero-based index i.
DelayArgumentsCountFromZero ==
    retryDelay = "function" =>
        /\ \A i \in 1..Len(delayLog) : delayLog[i] = i - 1
        /\ pc = "delaying" => Len(delayLog) = Len(attemptLog)

VerdictFlagged ==
    /\ moderationOutcome = "resolved"
    /\ \/ moderationResult.flagged
       \/ \E c \in Categories :
            moderationResult.category_scores[c] >= moderationThreshold

\* the message that names the categories at or above the threshold
FlaggedMessage(mr) ==
    LET h == mr.category_scores["hate"] >= moderationThreshold
        v == mr.category_scores["violence"] >= moderationThreshold
    IN  IF h /\ v THEN "Prompt was flagged for hate, violence"
        ELSE IF h THEN "Prompt was flagged for hate"
        ELSE IF v THEN "Prompt was flagged for violence"
        ELSE "Prompt was flagged for "

\* C6: when moderation is enabled and the verdict is flagged, request()
\* returns [error, null, null] with the message naming the flagged
\* categories, appends no record and makes no remote model call.
FlaggedShortCircuits ==
    VerdictFlagged =>
        /\ pc = "returned"
        /\ result.error = FlaggedMessage(moderationResult)
        /\ result.response = null
        /\ result.history = null
        /\ responseHistory = <<>>
        /\ attemptLog = <<>>
        /\ modelCalls = 0

FlaggedShortCircuitsWitness ==
    /\ VerdictFlagged
    /\ ~moderationResult.flagged
    /\ pc = "returned"
    /\ retryCount >= 1
    /\ result.error = "Prompt was flagged for violence"

\* C7: when the moderation call itself fails, request() rejects with that
\* exception, makes no remote model call and does not call the moderation
\* service again, whatever retryCount is.
ModerationFailureAborts ==
    moderationOutcome = "rejected" =>
        /\ pc = "threw"
        /\ thrown = ModerationFailure
        /\ result = null
        /\ modelCalls = 0
        /\ moderationCalls = 1
        /\ responseHistory = <<>>

ModerationFailureAbortsWitness ==
    /\ moderationOutcome = "rejected"
    /\ pc = "threw"
    /\ retryCount >= 1

\* C8: for a request that entered the attempt loop, the returned error is
\* null if and only if the last record of the returned history is a success.
ErrorNullIffLastSuccess ==
    LoopEntered =>
        (result.error = NoError <=>
            ~Failed(result.history[Len(result.history)]))

ErrorNullIffLastSuccessWitness ==
    /\ LoopEntered
    /\ Len(result.history) >= 2
    /\ Failed(result.history[1])
    /\ result.error = NoError

LatestBody(log) ==
    LET got == {i \in 1..Len(log) : log[i].body # NoBody}
    IN  IF got = {} THEN NoBody
        ELSE log[CHOOSE i \in got : \A j \in got : j <= i].body

\* C9: when all retryCount + 1 attempts fail, request() returns (does not
\* throw) the error message of the last attempt, with a non-null final
\* response record that carries the response body obtained so far.
ExhaustionReturnsLastError ==
    (pc \in {"returned", "threw"} /\ Len(attemptLog) = retryCount + 1
        /\ AllFailed(attemptLog)) =>
        LET n == Len(attemptLog) IN
        /\ pc = "returned"
        /\ thrown = NoError
        /\ result.error = attemptLog[n].error
        /\ result.response # null
        /\ result.response = result.history[n]
        /\ result.response.error = attemptLog[n].error
        /\ result.response.response = LatestBody(attemptLog)

ExhaustionReturnsLastErrorWitness ==
    /\ pc = "returned"
    /\ Len(attemptLog) = retryCount + 1
    /\ AllFailed(attemptLog)
    /\ retryCount >= 1
    /\ attemptLog[1].error # attemptLog[Len(attemptLog)].error
    /\ result.response.response # NoBody

\* C10: an attempt whose remote call does not settle within the timeout is
\* recorded as a failure with the message "Request timed out", and is
\* retried like any other failure while attempts remain.
TimeoutRecordedAsRequestTimedOut ==
    \A i \in 1..Len(attemptLog) :
        attemptLog[i].kind = "timeout" =>
            /\ responseHistory[i].error = RequestTimedOut
            /\ (pc = "returned" /\ i <= retryCount) => Len(attemptLog) > i

\* the last settled call resolved with a response body
Resolved == settled # null /\ settled.kind = "resolve"
LastRecord == responseHistory[Len(responseHistory)]
\* the response reports a token count t
ReportsTokens(t) ==
    /\ settled.body.usage.present
    /\ settled.body.usage.completion_tokens = t
OnlyTokenFloorSet == ~validateJson /\ minResponseTime = 0
OnlyLatencyFloorSet == ~validateJson /\ minTokens = 0

\* C11: with minTokens = m, an attempt whose response reports t tokens is
\* rejected by the token check when t <= m and passes it when t > m.
TokenFloorRejectsAtOrBelow ==
    (Resolved /\ minTokens # 0) =>
        \A t \in 0..2 :
            ReportsTokens(t) =>
                /\ t <= minTokens => LastRecord.error # NoError
                /\ (t <= minTokens /\ OnlyTokenFloorSet) =>
                        LastRecord.error = UnreliableTokens
                /\ t > minTokens => LastRecord.error # UnreliableTokens
                /\ (t > minTokens /\ OnlyTokenFloorSet) =>
                        LastRecord.error = NoError /\ LastRecord.tokens = t

TokenFloorRejectsAtOrBelowWitness ==
    /\ Resolved
    /\ minTokens # 0
    /\ ReportsTokens(minTokens)
    /\ OnlyTokenFloorSet
    /\ LastRecord.error = UnreliableTokens

\* C12: with minResponseTime = f, an attempt whose elapsed time e is <= f
\* fails with the unreliable-response error (unless the JSON check, which
\* runs first, already rejected it) and an attempt with e > f passes the
\* latency check.
LatencyFloorRejectsAtOrBelow ==
    (Resolved /\ minResponseTime # 0) =>
        LET e == settled.time IN
        /\ e <= minResponseTime =>
                LastRecord.error \in {UnreliableTime, InvalidJson}
        /\ (e <= minResponseTime /\ OnlyLatencyFloorSet) =>
                LastRecord.error = UnreliableTime
        /\ e > minResponseTime => LastRecord.error # UnreliableTime
        /\ (e > minResponseTime /\ OnlyLatencyFloorSet) =>
                LastRecord.error = NoError

LatencyFloorRejectsAtOrBelowWitness ==
    /\ Resolved
    /\ minResponseTime # 0
    /\ settled.time = minResponseTime
    /\ OnlyLatencyFloorSet
    /\ LastRecord.error = UnreliableTime

\* the response carries no usable token count
NoUsableTokenCount ==
    \/ ~settled.body.usage.present
    \/ settled.body.usage.completion_tokens = NaN

\* C13: when the response carries no usable token count (usage absent or
\* not parsable as a number) the count is taken as 0: the attempt passes
\* the token check when minTokens is not set and is rejected by the token
\* floor when minTokens is positive.
UnknownTokenCountIsZero ==
    (Resolved /\ NoUsableTokenCount) =>
        /\ minTokens = 0 => LastRecord.error # UnreliableTokens
        /\ LastRecord.error = NoError => LastRecord.tokens = 0
        /\ minTokens > 0 => LastRecord.error # NoError
        /\ (minTokens > 0 /\ OnlyTokenFloorSet) =>
                LastRecord.error = UnreliableTokens

JsonCheckApplied == validateJson /\ ~imageModel

\* C14: the JSON check is applied exactly when validateJson is true and the
\* request is not an image request; when applied, content that does not
\* parse fails the attempt with the invalid-JSON error, and when not
\* applied no content is rejected for its shape.
JsonCheckedExactlyWhenAsked ==
    Resolved =>
        /\ (JsonCheckApplied /\ ~settled.body.json) =>
                LastRecord.error = InvalidJson
        /\ (JsonCheckApplied /\ settled.body.json) =>
                LastRecord.error # InvalidJson
        /\ ~JsonCheckApplied => LastRecord.error # InvalidJson

JsonCheckedExactlyWhenAskedWitness ==
    /\ Resolved
    /\ validateJson
    /\ imageModel
    /\ ~settled.body.json
    /\ LastRecord.error = NoError
    /\ Len(responseHistory) = 2
    /\ responseHistory[1].error = TransportError

\* ---------------------------------------------------- parallel(): claims

BatchStarted == parPc \notin {"idle", "invalid"}

\* C15: during parallel() with concurrency c, the remote model calls that
\* are started and not yet settled number at most c at every instant.
InFlightWithinConcurrency == BatchStarted => InFlight <= concurrency

\* the same bound over the calls that some attempt is still awaiting
AwaitedCallsWithinConcurrency ==
    Cardinality({i \in DOMAIN items : items[i].pc = "calling"}) <= concurrency

\* Promise.all has been fulfilled and parallel() has run to its end
BatchEnded == parPc \in {"returned", "threw"}

\* C16: parallel() returns one result per submitted item, and the result
\* at position i is the one the request of item i produced, whatever the
\* order in which the items completed.
BatchReturnsAlignedResults ==
    BatchEnded =>
        /\ parPc = "returned"
        /\ IF form \in LegacyForms
           THEN /\ DOMAIN results[2] = 1..NItems
                /\ \A i \in 1..NItems :
                       results[2][i] = Part("gptResponse", i)
           ELSE /\ DOMAIN results = 1..NItems
                /\ \A i \in 1..NItems :
                       results[i] = <<Part("error", i), Part("gptResponse", i),
                                      Part("responseHistory", i)>>

\* the same, for the parallel() of src/lib and of the second legacy class
LibReturnsAlignedResults == form # "legacy" => BatchReturnsAlignedResults

Terminal(i) == items[i].pc \in {"returned", "rejected"}

\* the request of item i has ended with its last attempt failed
Exhausted(i) == Terminal(i) /\ items[i].gptResponse = "failure"

\* the request of item i has ended with a successful attempt
Succeeded(i) == Terminal(i) /\ items[i].gptResponse = "success"

ExhaustionStep(i) == ~Exhausted(i) /\ Exhausted(i)'

\* C17: in the parallel() of src/lib an item that uses up its attempts ends
\* with a result of its own and aborts nothing: the step that exhausts it
\* leaves every other item and parallel() itself as they were, parallel() is
\* only ever rejected by an item that was not exhausted, and when it returns
\* the batch result holds the result of every item.
ExhaustionIsolated ==
    /\ [](form \in LibForms =>
            /\ \A i \in 1..NItems : Exhausted(i) => items[i].pc = "returned"
            /\ parPc = "rejected" =>
                   \E j \in 1..NItems :
                       items[j].pc = "rejected" /\ ~Exhausted(j)
            /\ parPc = "returned" =>
                   \A i \in 1..NItems :
                       Terminal(i) /\ results[i][1] = Part("error", i))
    /\ [][(form \in LibForms) =>
            \A i \in 1..NItems :
                ExhaustionStep(i) =>
                    /\ parPc' = parPc
                    /\ \A j \in 1..NItems \ {i} : items'[j] = items[j]]_vars

\* item 1 used up its attempts, item 2 succeeded, the batch returned both
ExhaustionIsolatedWitness ==
    /\ form \in LibForms
    /\ parPc = "returned"
    /\ Exhausted(1)
    /\ Succeeded(2)
    /\ retryCount = MaxBatchRetryCount
    /\ results[1] = RequestReturn(1)
    /\ results[2] = RequestReturn(2)

\* the request of item i ended in a fatal error: a moderation veto, a failed
\* moderation call or a configuration error
Vetoed(i) ==
    /\ items[i].pc = "returned"
    /\ items[i].gptResponse = "null"
    /\ items[i].error # NoError

Fatal(i) == Vetoed(i) \/ (items[i].pc = "rejected" /\ ~Exhausted(i))

BatchSettled == parPc \in {"returned", "rejected", "threw"}

\* C18: in the parallel() of src/lib an item whose request ends in a fatal
\* error does not affect the others: parallel() still returns, and the
\* results of the other items are in what it returns.
FatalItemIsolated ==
    (form \in LibForms /\ BatchSettled /\ \E i \in 1..NItems : Fatal(i)) =>
        /\ parPc = "returned"
        /\ \A j \in 1..NItems :
               ~Fatal(j) => results[j][1] = Part("error", j)

\* the same, for the items whose fatal error is a moderation veto
VetoedItemIsolated ==
    (/\ form \in LibForms
     /\ BatchSettled
     /\ \E i \in 1..NItems : Vetoed(i)
     /\ \A j \in 1..NItems : items[j].pc # "rejected") =>
        /\ parPc = "returned"
        /\ \A j \in 1..NItems : results[j][1] = Part("error", j)

\* the invocations of onResponse made for item i
CallsFor(i) ==
    {k \in DOMAIN onResponseCalls : onResponseCalls[k][1].item = i}

\* C19: when onResponse is supplied, it has been invoked exactly once for
\* every item whose request has ended with a result and not at all for an
\* item that has not yet ended.
OnResponseOncePerItem ==
    (BatchStarted /\ onResponse) =>
        \A i \in 1..NItems :
            Cardinality(CallsFor(i)) =
                (IF items[i].pc = "returned" THEN 1 ELSE 0)

\* the same where parallel() listens to the queue's completed event, and
\* there the invocations are made in the order in which the items end
HandlerCallsOncePerItem ==
    /\ [](HandlerRegistered => OnResponseOncePerItem)
    /\ [][(HandlerRegistered /\ onResponse) =>
            \A i \in 1..NItems :
                (items[i].pc # "returned" /\ items'[i].pc = "returned") =>
                    /\ Len(onResponseCalls') = Len(onResponseCalls) + 1
                    /\ onResponseCalls'[Len(onResponseCalls')][1].item = i]_vars

\* C20: every onResponse invocation receives (result, index, prompt): the
\* whole result of one item's request, that item's submission index and
\* that item's prompt.
OnResponseReceivesResultIndexPrompt ==
    \A k \in DOMAIN onResponseCalls :
        \E i \in 1..NItems :
            onResponseCalls[k] =
                <<Part("value", i), Part("index", i), Part("prompt", i)>>

\* the same, for the legacy parallel() only
LegacyOnResponseArguments ==
    form \in LegacyForms => OnResponseReceivesResultIndexPrompt

\* the items whose request did not end with a successful attempt
FailedItems == {i \in 1..NItems : ~Succeeded(i)}

\* C21: the aggregate error that the three-array parallel() returns is null
\* when every item succeeded, and otherwise a non-empty list holding exactly
\* the final error of each failed item, one entry per failed item.
AggregateErrorSummarisesFailures ==
    (form \in LegacyForms /\ BatchEnded) =>
        /\ parPc = "returned"
        /\ IF FailedItems = {}
           THEN results[1] = null
           ELSE /\ results[1] # null
                /\ Len(results[1].list) = Cardinality(FailedItems)
                /\ {results[1].list[k] : k \in DOMAIN results[1].list} =
                       {Part("error", i) : i \in FailedItems}

\* the same, for the second legacy class, whose parallel() does return
SecondLegacyAggregateError ==
    form = "legacy2" => AggregateErrorSummarisesFailures

Waiting(i) == items[i].pc = "queued"

\* the priority given with message i of the list, 0 when it carries none
GivenPriority(i) ==
    IF items[i].message.given THEN items[i].message.value ELSE 0

\* C22: an item that had to wait for a free slot is started only when
\* every other waiting item was given a smaller priority, or the same
\* priority (every item, when none is given) and a later position in the
\* submitted list.
WaitingTasksStartByPriority ==
    [][\A i \in DOMAIN items :
          (BatchStarted /\ Waiting(i) /\ ~Waiting(i)') =>
              \A j \in DOMAIN items \ {i} :
                  Waiting(j) =>
                      \/ GivenPriority(j) < GivenPriority(i)
                      \/ GivenPriority(j) = GivenPriority(i) /\ i < j]_vars

\* with one slot, the last message has overtaken the second by the priority
\* it was given
WaitingTasksStartByPriorityWitness ==
    /\ form = "priority"
    /\ concurrency = 1
    /\ ~items[1].message.given
    /\ ~items[2].message.given
    /\ items[3].message = [given |-> TRUE, value |-> 1]
    /\ items[1].pc = "returned"
    /\ items[3].pc = "calling"
    /\ Waiting(2)

\* neither prompt nor messages, an empty messages list or a negative
\* retryCount
InputMalformed ==
    \/ given = "none"
    \/ given = "messages" /\ nMessages = 0
    \/ retryCount < 0

\* C23: request() called with malformed input raises a configuration error
\* before any moderation or model call is made and before any attempt is
\* recorded.
MalformedInputRaisesBeforeAnyCall ==
    (InputMalformed /\ pc # "idle") =>
        /\ pc = "threw"
        /\ thrown \in {MissingPrompt, EmptyMessages, NegativeRetryCount}
        /\ modelCalls = 0
        /\ moderationCalls = 0
        /\ attemptLog = <<>>
        /\ responseHistory = <<>>
        /\ result = null

\* only retryCount is wrong, on an instance whose moderation is enabled
MalformedInputRaisesBeforeAnyCallWitness ==
    /\ pc = "threw"
    /\ thrown = NegativeRetryCount
    /\ given = "prompt"
    /\ retryCount < 0
    /\ moderation
    /\ moderationCalls = 0

\* the parameters of parallel() other than retryDelay pass its validation
OtherParametersValid ==
    form = "legacy" => (onResponse /\ verbose \in {"NONE", "INFO", "DEBUG"})

\* C24: parallel() accepts a retryDelay that is a function just as it
\* accepts a number: it does not refuse the batch for it.
FunctionRetryDelayAccepted ==
    (retryDelay = "function" /\ OtherParametersValid /\ parPc # "idle") =>
        parPc # "invalid"

\* the same, for a retryDelay that is a number
NumberRetryDelayAccepted ==
    (retryDelay # "function" /\ OtherParametersValid /\ parPc # "idle") =>
        parPc # "invalid"

\* request() returned without having made an attempt
RequestVetoed == pc = "returned" /\ attemptLog = <<>>

\* C25: a request is vetoed exactly when moderation is enabled and the
\* classification has flagged = true or a category whose score is at or
\* above moderationThreshold; every other request that gets past
\* moderation enters the attempt loop.
VetoExactlyWhenFlagged ==
    /\ RequestVetoed <=> VerdictFlagged
    /\ RequestVetoed => moderation /\ modelCalls = 0
    /\ (~VerdictFlagged /\ pc \in {"calling", "delaying", "returned"}) =>
           modelCalls >= 1

\* vetoed by a score that equals the threshold, flagged being false
VetoExactlyWhenFlaggedWitness ==
    /\ RequestVetoed
    /\ ~moderationResult.flagged
    /\ moderationResult.category_scores["hate"] = moderationThreshold
    /\ moderationResult.category_scores["violence"] < moderationThreshold

\* C26: the moderation service is called exactly once for a request when
\* moderation is enabled and never when it is disabled, and the call has
\* completed before the first remote model call starts.
ModerationCalledOnceWhenEnabled ==
    (pc \notin {"idle", "threw"} \/ thrown = ModerationFailure) =>
        /\ moderationCalls = (IF moderation THEN 1 ELSE 0)
        /\ (moderation /\ modelCalls >= 1) => moderationOutcome = "resolved"

\* the same, for the requests that carry a single message
SingleMessageModeratedOnce ==
    nMessages = 1 => ModerationCalledOnceWhenEnabled

\* C29: a retry delay is awaited only after a failed attempt that is
\* followed by another attempt: a delay starts only when the attempt that has
\* just settled failed, and when it elapses the next attempt starts.  None is
\* awaited before the first attempt, after a success or after the last
\* attempt.
DelayOnlyBeforeAnotherAttempt ==
    [][/\ (delayLog' # delayLog) =>
            /\ pc = "calling"
            /\ Len(attemptLog') = Len(attemptLog) + 1
            /\ attemptLog'[Len(attemptLog')].error # NoError
       /\ (pc = "delaying") =>
            /\ pc' = "calling"
            /\ modelCalls' = modelCalls + 1]_vars

\* the delays of a finished request are fewer than its attempts
FewerDelaysThanAttempts ==
    pc = "returned" => (delayLog = <<>> \/ Len(delayLog) < modelCalls)

\* what the dispatcher's promise for the task of item i has done
TaskOutcome(i) ==
    IF form = "chatgpt" THEN items[i].task
    ELSE CASE items[i].pc = "returned" -> "value"
           [] items[i].pc = "rejected" -> "rejected"
           [] OTHER -> "pending"

\* C27: in the parallel() of src/lib and the Parallel() of the ChatGpt class,
\* when an attempt of item i times out, no other item changes, the item goes
\* on like after any failed attempt, and while it has an attempt or a delay
\* ahead its task stays pending: no timer that started before the later
\* attempt cuts that attempt off.
AttemptTimeoutIsolated ==
    [][(form \in LibForms \cup {"chatgpt"}) =>
        \A i \in DOMAIN items :
            (items[i].pc = "calling" /\ items'[i] # items[i]
                                     /\ orphans' = orphans + 1) =>
                /\ \A j \in DOMAIN items \ {i} : items'[j] = items[j]
                /\ items'[i].pc \in {"calling", "delaying", "returned"}
                /\ items'[i].pc \in {"calling", "delaying"} =>
                       TaskOutcome(i)' = "pending"]_vars

\* in the parallel() of src/lib a timed-out attempt that is not the last is
\* followed by the delay or the next attempt of the same item
LibAttemptTimeoutIsolated ==
    [][(form \in LibForms) =>
        \A i \in DOMAIN items :
            (items[i].pc = "calling" /\ items'[i] # items[i]
                                     /\ orphans' = orphans + 1) =>
                /\ \A j \in DOMAIN items \ {i} : items'[j] = items[j]
                /\ items'[i].pc \in {"calling", "delaying", "returned"}
                /\ LoopCondition(items[i].retryAttempt) =>
                       items'[i].pc \in {"calling", "delaying"}]_vars

\* C28: no step of request() changes the instance-level defaults, and in
\* every call each option has the value the caller passed to that call, or,
\* when the caller omitted it, the value given to the constructor, whatever
\* earlier calls passed.
CallOptionsLeaveDefaults ==
    [][/\ defaults' = defaults
       /\ \A f \in OptionNames :
              CurrentOption(f)' = (IF f \in DOMAIN options' THEN options'[f]
                                   ELSE defaults[f])]_vars

\* a finished call that omitted retryCount after an earlier call had passed
\* another value than the constructor's
CallOptionsLeaveDefaultsWitness ==
    /\ pc = "returned"
    /\ modelCalls >= 1
    /\ "retryCount" \in overridden
    /\ "retryCount" \notin DOMAIN options
    /\ retryCount = defaults.retryCount

\* parallel() changes no instance-level default either
ParallelLeavesDefaults == [][defaults' = defaults]_vars

\* C30: the checks of a received response run in the order JSON, latency
\* floor, token floor and stop at the first violation: the error recorded
\* for the attempt is that of the earliest check the response violates, and
\* there is none when it violates no check.
ChecksStopAtFirstViolation ==
    Resolved =>
        LET json == JsonCheckFails(settled.body)
            latency == LatencyCheckFails(settled.time)
            tokens == TokenCheckFails(getToken(settled.body))
        IN  /\ json => LastRecord.error = InvalidJson
            /\ (~json /\ latency) => LastRecord.error = UnreliableTime
            /\ (~json /\ ~latency /\ tokens) =>
                   LastRecord.error = UnreliableTokens
            /\ (~json /\ ~latency /\ ~tokens) => LastRecord.error = NoError

\* a response that violates all three checks is recorded as invalid JSON
ChecksStopAtFirstViolationWitness ==
    /\ Resolved
    /\ JsonCheckFails(settled.body)
    /\ LatencyCheckFails(settled.time)
    /\ TokenCheckFails(getToken(settled.body))
    /\ LastRecord.error = InvalidJson

\* a response that passes the JSON check and violates both floors is
\* recorded with the latency error
LatencyBeforeTokens ==
    (Resolved /\ ~JsonCheckFails(settled.body)
              /\ LatencyCheckFails(settled.time)
              /\ TokenCheckFails(getToken(settled.body))) =>
        LastRecord.error = UnreliableTime

\* C31: a transport rejection, a timeout or a validation failure inside an
\* attempt never escapes request() as an exception: the step that handles the
\* settled call of an attempt does not end the request, alone or as an item
\* of a batch, with a rejection.
AttemptFailureNeverEscapes ==
    [][/\ (pc = "calling") => pc' # "threw"
       /\ \A i \in DOMAIN items :
              (items[i].pc = "calling") => items'[i].pc # "rejected"]_vars

\* in request() of src/lib a failed attempt is one failed record, is counted
\* in the budget of retryCount + 1 attempts, and is returned as the error
\* string when it was the last attempt
LibAttemptFailureIsRecorded ==
    [][(pc = "calling" /\ pc' # "calling"
            /\ attemptLog'[Len(attemptLog')].error # NoError) =>
        /\ pc' \in {"delaying", "returned"}
        /\ thrown' = NoError
        /\ Len(responseHistory') = Len(responseHistory) + 1
        /\ responseHistory'[Len(responseHistory')].error =
               attemptLog'[Len(attemptLog')].error
        /\ modelCalls' <= retryCount + 1
        /\ (pc' = "returned") =>
               /\ modelCalls' = retryCount + 1
               /\ result'.error = attemptLog'[Len(attemptLog')].error]_vars

\* C32: within one request the attempts are strictly sequential: when the
\* remote call of an attempt starts, every earlier attempt has its record in
\* the history, and the step that begins a delay starts no call, so that the
\* next call starts only when the delay has elapsed.
AttemptsStrictlySequential ==
    [][/\ modelCalls' \in {modelCalls, modelCalls + 1}
       /\ (modelCalls' = modelCalls + 1) =>
              /\ Len(responseHistory') = modelCalls
              /\ delayLog' = delayLog
              /\ pc' = "calling"
       /\ (pc' = "delaying") => Len(responseHistory') = modelCalls']_vars

\* the second attempt has started after the delay that followed the first
AttemptsStrictlySequentialWitness ==
    /\ pc = "calling"
    /\ modelCalls = 2
    /\ Len(delayLog) = 1
    /\ Len(responseHistory) = 1
    /\ responseHistory[1].error # NoError

\* C33: in the parallel() of src/lib, provided every remote call settles or
\* times out, every submitted item is eventually admitted and parallel()
\* eventually returns.
ParallelEventuallyReturns ==
    /\ \A i \in 1..NItems : <>(items[i].pc # "queued")
    /\ <>(parPc = "returned")

\* every submitted item is eventually admitted
EveryItemEventuallyAdmitted ==
    \A i \in 1..NItems : <>(items[i].pc # "queued")

\* parallel() eventually returns or rejects, and it returns when no request
\* of the batch rejects
ParallelEventuallySettles ==
    /\ <>(parPc \in {"returned", "rejected"})
    /\ <>(parPc = "returned"
             \/ \E i \in 1..NItems : items[i].pc = "rejected")

\* C34: the result of a request of a batch is determined by the outcomes of
\* its own moderation and model calls: a vetoed item made no model call and
\* returns the veto of its own classification, any other returned item
\* returns the error of its own last call, gives up only after retryCount + 1
\* calls of its own, and its history holds one record for each of its own
\* calls and no other.
ItemResultFromOwnCalls ==
    \A i \in DOMAIN items :
        LET it == items[i]
            vetoed == it.moderationResult # null
                        /\ IsVetoed(SafeInput(it.moderationResult))
        IN  (it.pc = "returned") =>
            /\ vetoed =>
                  /\ it.calls = <<>>
                  /\ it.error =
                         ItemModerationError(SafeInput(it.moderationResult))
                  /\ it.gptResponse = "null"
            /\ ~vetoed =>
                  /\ it.calls # <<>>
                  /\ it.error = QueueAddError(it.calls[Len(it.calls)])
                  /\ it.gptResponse = (IF it.error = NoError THEN "success"
                                       ELSE "failure")
                  /\ it.error # NoError => Len(it.calls) = retryCount + 1
                  /\ \A k \in 1..(Len(it.calls) - 1) :
                         QueueAddError(it.calls[k]) # NoError
            /\ Len(it.responseHistory) = Len(it.calls)
            /\ \A k \in 1..Len(it.calls) :
                   /\ it.responseHistory[k].item = i
                   /\ it.responseHistory[k].error = QueueAddError(it.calls[k])
            /\ (parPc = "returned") => results[i] = RequestReturn(i)

\* two items of one batch whose calls had different outcomes: one succeeded
\* at once, the other used up its attempts
ItemResultFromOwnCallsWitness ==
    /\ parPc = "returned"
    /\ retryCount >= 1
    /\ \E i, j \in DOMAIN items :
           /\ items[i].error = NoError
           /\ Len(items[i].calls) = 1
           /\ items[j].error # NoError
           /\ Len(items[j].calls) = retryCount + 1
           /\ Len(items[j].responseHistory) = retryCount + 1

\* C35: the response stored in the record of a failed attempt, and returned
\* as the final response when the attempts are used up, is the body received
\* during that attempt, or none when the attempt received none; it is never
\* the body of an earlier attempt.
FailedRecordHoldsOwnBody ==
    /\ Len(responseHistory) = Len(attemptLog)
    /\ \A k \in 1..Len(responseHistory) :
           responseHistory[k].error # NoError =>
               responseHistory[k].response = attemptLog[k].body
    /\ (LoopEntered /\ result.error # NoError) =>
           result.response.response = attemptLog[Len(attemptLog)].body

\* the record of a failed attempt that received a body holds that body
FailedRecordHoldsReceivedBody ==
    \A k \in 1..Len(responseHistory) :
        (k <= Len(attemptLog) /\ responseHistory[k].error # NoError
             /\ attemptLog[k].body # NoBody) =>
            responseHistory[k].response = attemptLog[k].body

\* C36: at every instant at most one remote model call of a given request is
\* in flight.  While one item is the only request of the batch that has
\* started, every call in flight is a call of that request.
AtMostOneCallPerRequest ==
    \A i \in DOMAIN items :
        (/\ items[i].pc # "queued"
         /\ \A j \in DOMAIN items \ {i} : items[j].pc = "queued") =>
            InFlight <= 1

\* the request of item i is between its start and its terminal state
BetweenAdmissionAndEnd(i) ==
    \/ items[i].pc \in {"moderating", "calling", "delaying"}
    \/ form = "chatgpt" /\ items[i].eager = "running"

\* C37: during parallel() with concurrency c at most c items are between
\* admission and terminal state at every instant, moderation call and retry
\* delays included.
SlotsHeldForWholeRequest ==
    Cardinality({i \in DOMAIN items : BetweenAdmissionAndEnd(i)})
        <= concurrency

\* in the parallel() of src/lib an item leaves the queue only in a step in
\* which fewer than c items hold a slot
LibAdmissionNeedsFreeSlot ==
    [][(form \in LibForms /\ parPc # "idle") =>
        \A i \in DOMAIN items :
            (items[i].pc = "queued" /\ items'[i].pc # "queued") =>
                Cardinality(Running) < concurrency]_vars

\* the item's own options were handed to its request
ItemOptionsTakePrecedence ==
    \A i \in DOMAIN items :
        items[i].pc = "running" =>
            \A f \in DOMAIN items[i].requestOptions :
                CurrentOption(f) = items[i].requestOptions[f]

\* an item without options of its own runs with the batch's options
BatchOptionsWithoutOwn ==
    \A i \in DOMAIN items :
        (items[i].pc = "running" /\ DOMAIN items[i].requestOptions = {}) =>
            \A f \in DOMAIN requestOptions :
                CurrentOption(f) = requestOptions[f]

\* C38: in parallel() the options given on an item take precedence over the
\* batch-level requestOptions for that item, and an item without options of
\* its own is run with the batch-level requestOptions.
ItemOptionsOverBatchOptions ==
    ItemOptionsTakePrecedence /\ BatchOptionsWithoutOwn

\* the first revision hands every item the batch's options
FirstRevisionRunsBatchOptions ==
    form = "lib1" => BatchOptionsWithoutOwn

\* the second revision hands every item its own options
SecondRevisionRunsItemOptions ==
    form = "lib2" => ItemOptionsTakePrecedence

TypeOK ==
    /\ pc \in {"idle", "moderating", "calling", "delaying", "returned", "threw"}
    /\ retryAttempt \in -1..(MaxRetryCount + 2)
    /\ modelCalls \in 0..(MaxRetryCount + 2)
    /\ parPc \in {"idle", "invalid", "awaiting", "returned", "rejected",
                  "threw"}
    /\ orphans \in 0..(NItems * (MaxBatchRetryCount + 2))
    /\ \A i \in DOMAIN items :
           items[i].pc \in {"queued", "moderating", "calling", "delaying",
                            "returned", "rejected"}
====
